---- MODULE Spec2Model ----
(***************************************************************************)
(* Model of the stem mixer's synchronized transport                        *)
(* (src/src/workers/app/modules/mixer-loop.js, class TransportController). *)
(*                                                                         *)
(* Units: positions and drifts are integer milliseconds; playback rates    *)
(* are integer ten-thousandths (1.0 = 10000, 1.005 = 10050), so that the   *)
(* float helper RATE_EPSILON = 0.0001 is exactly one unit.                 *)
(***************************************************************************)
EXTENDS Integers, Sequences, FiniteSets, TLC

\* ------------------------------------------------------------------------
\* Bounds of the model
\* ------------------------------------------------------------------------
MaxStems == 2
MaxLeaderStems == 3
MaxPending == 1
TrackDuration == 1101
DriftHorizon == 120000
MaxBiquads == 8
MaxLoadStems == 4
MaxNow == 6150
MaxRun == 150

StemIds == 0 .. (MaxStems - 1)
None == -1

\* ------------------------------------------------------------------------
\* Program constants
\* ------------------------------------------------------------------------
NOMINAL == 10000
\* DEFAULT_MASTER_VOLUME = 0.8, in thousandths
DEFAULT_MASTER_VOLUME == 800
RATE_EPSILON == 1
\* mutants of the thresholds: exit under 1 ms; exit as wide as entry (no
\* hysteresis); entry above 50 ms; entry from 20 ms on; resync above 501 ms
EXIT_THRESHOLD_tight == 5 - 4
EXIT_THRESHOLD_wide == 5 + 16
EXIT_THRESHOLD == 5
ENTER_THRESHOLD_late == 20 + 30
ENTER_THRESHOLD_early == 20 - 1
ENTER_THRESHOLD == 20
TIER_THRESHOLD == 50
HARD_SYNC_THRESHOLD_loose == 500 + 1
HARD_SYNC_THRESHOLD == 500
PLAY_THRESHOLD == 100
SKIP_MS == 10000
RATE_FAST_UP == 10050
RATE_SLOW_UP == 10020
RATE_FAST_DOWN == 9950
RATE_SLOW_DOWN == 9980

Abs(x) == IF x < 0 THEN -x ELSE x
Max(a, b) == IF a > b THEN a ELSE b
Min(a, b) == IF a < b THEN a ELSE b

isRateNormal(rate) == Abs(rate - NOMINAL) < RATE_EPSILON
ratesEqual(a, b) == Abs(a - b) < RATE_EPSILON

\* ------------------------------------------------------------------------
\* Stem names and the rhythm patterns of leader election.  A name is a
\* sequence of fragments; a regex /w/i matches when some fragment, lower-
\* cased, is w, and /a.*b/ when a fragment a precedes a fragment b.
\* ------------------------------------------------------------------------
Lower(w) ==
  CASE w = "KICK" -> "kick"
    [] w = "Kick" -> "kick"
    [] w = "Drums" -> "drums"
    [] w = "Main" -> "main"
    [] w = "BASS" -> "bass"
    [] OTHER -> w

HasWord(name, ws) == \E i \in 1 .. Len(name) : Lower(name[i]) \in ws
HasInOrder(name, a, b) ==
  \E i \in 1 .. Len(name) : \E j \in (i + 1) .. Len(name) :
     Lower(name[i]) = a /\ Lower(name[j]) = b

PatternScores == <<100, 90, 80, 70, 60, 50, 40, 20>>

PatternTest(k, name) ==
  CASE k = 1 -> HasWord(name, {"kick"})
    [] k = 2 -> HasInOrder(name, "main", "drums") \/ HasInOrder(name, "drums", "main")
    [] k = 3 -> HasWord(name, {"drums"})
    [] k = 4 -> HasWord(name, {"beat"})
    [] k = 5 -> HasWord(name, {"perc", "prc"})
    [] k = 6 -> HasWord(name, {"hh", "hats", "hihat"})
    [] k = 7 -> HasWord(name, {"clap", "snare"})
    [] k = 8 -> HasWord(name, {"bass"})

RECURSIVE ScoreFrom(_, _, _)
ScoreFrom(k, name, score) ==
  IF k > Len(PatternScores) THEN score
  ELSE ScoreFrom(k + 1, name,
                 IF PatternTest(k, name) THEN Max(score, PatternScores[k]) ELSE score)


NamePool ==
  << <<"Synth">>, <<"KICK">>, <<"BASS">>, <<"Main", "Drums">>, <<"Drums", "Main">>,
     <<"Drums">>, <<"beat">>, <<"prc">>, <<"hh">>, <<"clap">> >>

NameSet == { NamePool[i] : i \in 1 .. Len(NamePool) }

\* the score of a name: the highest score among the patterns it matches
ScoreTable == [ name \in NameSet |-> ScoreFrom(1, name, 0) ]
StemScore(name) == ScoreTable[name]

\* ------------------------------------------------------------------------
\* State
\* ------------------------------------------------------------------------
VARIABLES
  names,          \* p.name of every configured stem (STEM_CONFIG)
  players,        \* this.players: indices of the stems handed to setPlayers
  currentTime,    \* p.audioElement.currentTime, ms
  playbackRate,   \* p.audioElement.playbackRate, 1/10000
  paused,         \* p.audioElement.paused
  isPlaying,      \* this.isPlaying
  pauseTime,      \* this.pauseTime, ms
  duration,       \* this.duration, ms
  cachedLeader,   \* this.cachedLeader (None = null)
  nudgingStems,   \* this.nudgingStems
  pending,        \* play() calls suspended at `await this.audio.resume()`
  lastNotify,     \* last value passed to onStateChange
  leaderRead,     \* stem returned by the last read of `this.leader` since setPlayers
  last,           \* the last completed call and the state it started from
  isMobile,       \* isMobile of mixer-app.js (user agent test)
  stemsLoaded,    \* loadStems() of mixer-app.js has handed the players over
  stems,          \* MixerState.stems: the mix state of every stem
  filters,        \* createFilter: `filters`, the stages of the filter of stem 0
  currentRolloff, \* createFilter: `currentRolloff` of that filter
  biquad,         \* every BiquadFilterNode created for it: type, frequency, Q
  connections,    \* connect()/disconnect(): the edges of the chain of stem 0
  gainTarget,     \* player.gainNode.gain: the target of every loaded stem
  masterVolume,   \* MixerState.masterVolume
  masterGain,     \* AudioEngine.masterGain.gain: its target
  stemLoad,       \* StemLoader.loadStems: how far the load of every stem is
  loaded,         \* StemLoader.loadStems: `players` and `meters`, by index
  batchAt,        \* StemLoader.loadStems: `i`, the first index of the batch
  loadPhase,      \* StemLoader.loadStems: idle, in a batch, pausing, resolved
  mixerPanel,     \* elements.mixerPanel.style.display
  now,            \* the timestamp of the latest animation frame
  lastRun,        \* AnimationManager.tasks: `lastRun` of every task
  loopIsRunning   \* AnimationManager.isRunning

\* the state outside the transport controller
\* the gains of the console, with the master volume they are set from
console == << gainTarget, masterVolume, masterGain >>
graph == << filters, currentRolloff, biquad, connections, console >>
loader == << stemLoad, loaded, batchAt, loadPhase, mixerPanel >>
sched == << now, lastRun, loopIsRunning >>
page == << isMobile, stemsLoaded, loader, sched >>
outside == << page, stems, graph >>
\* the page apart from the flag of the animation loop
besideLoop == << isMobile, stemsLoaded, loader, stems, graph, now, lastRun >>

vars == << names, players, currentTime, playbackRate, paused, isPlaying, pauseTime,
           duration, cachedLeader, nudgingStems, pending, lastNotify, leaderRead, last,
           isMobile, stemsLoaded, stems, filters, currentRolloff, biquad, connections,
           gainTarget, masterVolume, masterGain,
           stemLoad, loaded, batchAt, loadPhase, mixerPanel, now, lastRun,
           loopIsRunning >>

Ids == DOMAIN names

\* StemLoader.loadStems has not been called, and the mixer is hidden
NoLoad ==
  /\ stemLoad = << >>
  /\ loaded = [ players |-> {}, meters |-> {} ]
  /\ batchAt = 0
  /\ loadPhase = "idle"
  /\ mixerPanel = "none"

\* no task is registered and the animation loop does not run
NoLoop ==
  /\ now = 0
  /\ lastRun = << >>
  /\ loopIsRunning = FALSE

\* no stem has a gain node; the master gain is as _setupMasterChannel left it
NoConsole ==
  /\ gainTarget = << >>
  /\ masterVolume = DEFAULT_MASTER_VOLUME
  /\ masterGain = DEFAULT_MASTER_VOLUME

\* no stem has been loaded: there is no filter and no chain
NoGraph ==
  /\ filters = << >>
  /\ currentRolloff = 0
  /\ biquad = << >>
  /\ connections = {}
  /\ NoConsole

\* Object.values(this.players): integer-like keys are visited in ascending order
MinOf(S) == CHOOSE x \in S : \A y \in S : x <= y

\* mutant: a later stem with an equal score replaces the candidate
RECURSIVE LeaderLoop_lastWins(_, _, _, _, _)
LeaderLoop_lastWins(todo, ps, nm, bestCandidate, bestScore) ==
  IF todo = {} THEN bestCandidate
  ELSE LET p == MinOf(todo)
           score == StemScore(nm[p])
       IN IF score >= bestScore
            THEN LeaderLoop_lastWins(todo \ {p}, ps, nm, p, score)
            ELSE LeaderLoop_lastWins(todo \ {p}, ps, nm, bestCandidate, bestScore)

\* getLeader(): the forEach over the players, in index order
RECURSIVE LeaderLoop(_, _, _, _, _)
LeaderLoop(todo, ps, nm, bestCandidate, bestScore) ==
  IF todo = {} THEN bestCandidate
  ELSE LET p == MinOf(todo)
           score == StemScore(nm[p])
       IN IF score > bestScore
            THEN LeaderLoop(todo \ {p}, ps, nm, p, score)
            ELSE LeaderLoop(todo \ {p}, ps, nm, bestCandidate, bestScore)

getLeader(ps, nm) ==
  IF ps = {} THEN None ELSE LeaderLoop(ps, ps, nm, MinOf(ps), -1)

\* get leader(): the cached value, elected on first use
Leader == IF cachedLeader = None THEN getLeader(players, names) ELSE cachedLeader

\* the record of the call that completed last, if nothing happened since: its
\* name, its argument (seek) and, for syncCheck, the state it started from
Call(opName, arg) == [ op |-> opName, arg |-> arg ]

Snapshot(opName) ==
  [ op |-> opName, arg |-> None, currentTime |-> currentTime,
    playbackRate |-> playbackRate, nudgingStems |-> nudgingStems,
    isPlaying |-> isPlaying, leader |-> Leader ]

NoCall == Call("none", None)

FreshTime == [ p \in Ids |-> 0 ]
FreshRate == [ p \in Ids |-> NOMINAL ]
FreshPaused == [ p \in Ids |-> TRUE ]

\* mutant: resetPlaybackRates() clears the set and leaves the rates
ResetRates_keep == playbackRate

\* resetPlaybackRates(): the rates it leaves
ResetRates ==
  [ p \in Ids |-> IF p \in players /\ ~isRateNormal(playbackRate[p])
                    THEN NOMINAL ELSE playbackRate[p] ]

PauseAll == [ p \in Ids |-> IF p \in players THEN TRUE ELSE paused[p] ]

\* ------------------------------------------------------------------------
\* Environment: what the media elements can do between two calls
\* ------------------------------------------------------------------------
\* drifts (stem position minus leader position) around every threshold
Drifts == { -501, -51, -50, -4, 5, 20, 21, 51, 500, 501 }

\* wall-clock steps of the leader between two calls
LeaderSteps == { 600 }

SeekTargets == { -500, 600, TrackDuration + 500 }

\* STEM_CONFIG of the page: the stem names, by index
ConfigPool == << <<"Synth">>, <<"KICK">>, <<"BASS">> >>
TransportConfig == [ p \in StemIds |-> ConfigPool[(p % Len(ConfigPool)) + 1] ]

\* ------------------------------------------------------------------------
\* Operations of TransportController
\* ------------------------------------------------------------------------
\* a play() call suspended at its await: whether seek() made it, and whether
\* the stem set has been replaced since (it then starts the old elements)
PlayRequest == [ stale |-> FALSE, seek |-> FALSE ]
SeekRequest == [ stale |-> FALSE, seek |-> TRUE ]

\* setPlayers(players), with the freshly loaded elements of StemLoader;
\* newCache is what it stores in cachedLeader
SetPlayersBody(S, newCache) ==
  /\ players' = S
  /\ cachedLeader' = newCache
  /\ nudgingStems' = {}
  /\ duration' = IF S = {} THEN 0 ELSE TrackDuration
  /\ currentTime' = FreshTime
  /\ playbackRate' = FreshRate
  /\ paused' = FreshPaused
  /\ pending' = [ i \in 1 .. Len(pending) |-> [ pending[i] EXCEPT !.stale = TRUE ] ]
  /\ leaderRead' = None
  /\ last' = Call("setPlayers", None)
  /\ UNCHANGED << names, isPlaying, pauseTime, lastNotify >>

\* mutant: the leader cache survives the replacement of the stem set
SetPlayers_keepLeader(S) == SetPlayersBody(S, cachedLeader) /\ UNCHANGED outside

SetPlayers(S) == SetPlayersBody(S, None) /\ UNCHANGED outside

\* play(), up to `await this.audio.resume()`
PlayCall ==
  /\ players # {} => Len(pending) < MaxPending
  /\ pending' = IF players = {} THEN pending ELSE Append(pending, PlayRequest)
  /\ last' = IF players = {} THEN Call("play", None) ELSE NoCall
  /\ UNCHANGED << outside, names, players, currentTime, playbackRate, paused, isPlaying,
                  pauseTime, duration, cachedLeader, nudgingStems, lastNotify,
                  leaderRead >>

\* mutant: every stem is put at the resume position
StartTimes_always ==
  [ p \in Ids |-> IF p \in players THEN pauseTime ELSE currentTime[p] ]

\* the stems that play() repositions
Repositioned == { p \in players : Abs(currentTime[p] - pauseTime) > PLAY_THRESHOLD }

\* positions after the optimistic start of play()
StartTimes ==
  [ p \in Ids |-> IF p \in players /\ Abs(currentTime[p] - pauseTime) > PLAY_THRESHOLD
                    THEN pauseTime ELSE currentTime[p] ]

\* mutant: the listener stops the loop when the transport pauses, too
handleTransportStateChange_pauseStops(state) ==
  loopIsRunning' = (state = "playing")

\* handleTransportStateChange(state), the listener the page gives to the
\* transport: what it does to the animation loop
handleTransportStateChange(state) ==
  loopIsRunning' = IF state = "playing" THEN TRUE
                   ELSE IF state = "stopped" THEN FALSE
                   ELSE loopIsRunning

\* play(), from the resumption of the audio context to its end
PlayResume ==
  /\ pending # << >>
  /\ IF Head(pending).stale
       THEN UNCHANGED << currentTime, paused >>
       ELSE /\ currentTime' = StartTimes
            /\ paused' = [ p \in Ids |-> IF p \in players THEN FALSE ELSE paused[p] ]
  /\ pending' = Tail(pending)
  /\ isPlaying' = TRUE
  /\ lastNotify' = "playing"
  /\ handleTransportStateChange("playing")
  /\ last' = [ op |-> "playResume", arg |-> IF isPlaying THEN 1 ELSE 0,
                stale |-> Head(pending).stale, seek |-> Head(pending).seek,
                moved |-> IF Head(pending).stale THEN {} ELSE Repositioned ]
  /\ UNCHANGED << besideLoop, names, players, playbackRate, pauseTime, duration, cachedLeader,
                  nudgingStems, leaderRead >>

\* mutant: the resume position is taken from the first stem
PauseCapture_firstStem ==
  IF players # {} THEN currentTime[MinOf(players)] ELSE pauseTime

\* pause(), step 3: the resume position it captures
PauseCapture ==
  IF Leader # None THEN currentTime[Leader]
  ELSE IF players # {} THEN currentTime[MinOf(players)]
  ELSE pauseTime

\* pause()
Pause ==
  /\ playbackRate' = ResetRates
  /\ nudgingStems' = {}
  /\ paused' = PauseAll
  /\ cachedLeader' = Leader
  /\ leaderRead' = Leader
  /\ pauseTime' = PauseCapture
  /\ isPlaying' = FALSE
  /\ lastNotify' = "paused"
  /\ handleTransportStateChange("paused")
  /\ last' = Call("pause", None)
  /\ UNCHANGED << besideLoop, names, players, currentTime, duration, pending >>

\* mutant: the stems are paused where they are
StopTimes_keep == currentTime

\* stop(): the positions it leaves
StopTimes == [ p \in Ids |-> IF p \in players THEN 0 ELSE currentTime[p] ]

\* stop(); the record keeps whether the transport was playing
Stop ==
  /\ playbackRate' = ResetRates
  /\ nudgingStems' = {}
  /\ paused' = PauseAll
  /\ currentTime' = StopTimes
  /\ pauseTime' = 0
  /\ isPlaying' = FALSE
  /\ lastNotify' = "stopped"
  /\ handleTransportStateChange("stopped")
  /\ last' = Call("stop", IF isPlaying THEN 1 ELSE 0)
  /\ UNCHANGED << besideLoop, names, players, duration, cachedLeader, pending, leaderRead >>

\* mutant: the position of the first stem is reported
CurrentTimeValue_firstStem ==
  IF isPlaying /\ players # {} THEN currentTime[MinOf(players)] ELSE pauseTime

\* getCurrentTime(): the value it returns
CurrentTimeValue ==
  IF isPlaying /\ players # {}
    THEN IF Leader # None /\ currentTime[Leader] # 0
           THEN currentTime[Leader] ELSE pauseTime
    ELSE pauseTime

\* the leader cache after getCurrentTime()
ReadByGetCurrentTime == isPlaying /\ players # {}

\* getCurrentTime(): what it does to the transport
GetCurrentTimeBody ==
  /\ cachedLeader' = IF ReadByGetCurrentTime THEN Leader ELSE cachedLeader
  /\ leaderRead' = IF ReadByGetCurrentTime THEN Leader ELSE leaderRead
  /\ UNCHANGED << outside, names, players, currentTime, playbackRate, paused, isPlaying,
                  pauseTime, duration, nudgingStems, pending, lastNotify >>

GetCurrentTime ==
  /\ GetCurrentTimeBody
  /\ last' = NoCall

\* seek(time), with the play() call it makes when it was playing and the
\* play() call that restart() adds when it was not
\* mutant: no lower bound on the target
SeekTarget_noFloor(time) == Min(time, duration)

\* seek(time): the clamped target
SeekTarget(time) == Max(0, Min(time, duration))

SeekBody(time, andPlay) ==
  LET target == SeekTarget(time)
      wasPlaying == isPlaying
      replay == (wasPlaying \/ andPlay) /\ players # {}
  IN /\ replay => Len(pending) < MaxPending
     /\ pauseTime' = target
     /\ playbackRate' = IF wasPlaying THEN ResetRates ELSE playbackRate
     /\ nudgingStems' = IF wasPlaying THEN {} ELSE nudgingStems
     /\ paused' = IF wasPlaying THEN PauseAll ELSE paused
     /\ currentTime' = [ p \in Ids |-> IF p \in players THEN target ELSE currentTime[p] ]
     /\ pending' = IF replay
                      THEN Append(pending, IF wasPlaying THEN SeekRequest ELSE PlayRequest)
                      ELSE pending
     /\ UNCHANGED << outside, names, players, isPlaying, duration, lastNotify >>

Seek(time) ==
  /\ SeekBody(time, FALSE)
  /\ last' = Call("seek", time)
  /\ UNCHANGED << cachedLeader, leaderRead >>

skipBack ==
  /\ SeekBody(CurrentTimeValue - SKIP_MS, FALSE)
  /\ cachedLeader' = IF ReadByGetCurrentTime THEN Leader ELSE cachedLeader
  /\ leaderRead' = IF ReadByGetCurrentTime THEN Leader ELSE leaderRead
  /\ last' = Call("skipBack", CurrentTimeValue - SKIP_MS)

skipForward ==
  /\ SeekBody(CurrentTimeValue + SKIP_MS, FALSE)
  /\ cachedLeader' = IF ReadByGetCurrentTime THEN Leader ELSE cachedLeader
  /\ leaderRead' = IF ReadByGetCurrentTime THEN Leader ELSE leaderRead
  /\ last' = Call("skipForward", CurrentTimeValue + SKIP_MS)

restart ==
  /\ SeekBody(0, TRUE)
  /\ last' = Call("restart", 0)
  /\ UNCHANGED << cachedLeader, leaderRead >>

\* ------------------------------------------------------------------------
\* syncCheck()
\* ------------------------------------------------------------------------
\* mutant: the two tiers exchanged
NudgeRate_swapped(diff) ==
  IF diff < 0
    THEN (IF Abs(diff) > TIER_THRESHOLD THEN RATE_SLOW_UP ELSE RATE_FAST_UP)
    ELSE (IF Abs(diff) > TIER_THRESHOLD THEN RATE_SLOW_DOWN ELSE RATE_FAST_DOWN)

\* the two-tier rate of a nudge, from the signed drift
NudgeRate(diff) ==
  IF diff < 0
    THEN (IF Abs(diff) > TIER_THRESHOLD THEN RATE_FAST_UP ELSE RATE_SLOW_UP)
    ELSE (IF Abs(diff) > TIER_THRESHOLD THEN RATE_FAST_DOWN ELSE RATE_SLOW_DOWN)

\* mutant: every stem is compared with the first stem of the set, whichever
\* stem was elected
SyncStem_firstStem(p, leader, leaderTime) ==
  LET first == MinOf(players)
      firstTime == currentTime[first]
      diff == currentTime[p] - firstTime
      absDiff == Abs(diff)
      isNudging == p \in nudgingStems
      newRate == NudgeRate(diff)
      same == [ t |-> currentTime[p], r |-> playbackRate[p], n |-> isNudging ]
  IN IF p = first
       THEN [ same EXCEPT !.r = IF ~isRateNormal(playbackRate[p])
                                  THEN NOMINAL ELSE playbackRate[p] ]
     ELSE IF absDiff > HARD_SYNC_THRESHOLD
       THEN [ t |-> firstTime, r |-> NOMINAL, n |-> FALSE ]
     ELSE IF isNudging /\ absDiff < EXIT_THRESHOLD
       THEN [ same EXCEPT !.r = NOMINAL, !.n = FALSE ]
     ELSE IF absDiff > ENTER_THRESHOLD \/ isNudging
       THEN IF ~ratesEqual(playbackRate[p], newRate)
              THEN [ same EXCEPT !.r = newRate, !.n = TRUE ]
              ELSE same
     ELSE same

\* what one pass of the forEach body does to stem p: its position (t), its
\* rate (r) and its membership of nudgingStems (n)
SyncStem(p, leader, leaderTime) ==
  LET diff == currentTime[p] - leaderTime
      absDiff == Abs(diff)
      isNudging == p \in nudgingStems
      newRate == NudgeRate(diff)
      same == [ t |-> currentTime[p], r |-> playbackRate[p], n |-> isNudging ]
  IN IF p = leader
       THEN [ same EXCEPT !.r = IF ~isRateNormal(playbackRate[p])
                                  THEN NOMINAL ELSE playbackRate[p] ]
     ELSE IF absDiff > HARD_SYNC_THRESHOLD
       THEN [ t |-> leaderTime, r |-> NOMINAL, n |-> FALSE ]
     ELSE IF isNudging /\ absDiff < EXIT_THRESHOLD
       THEN [ same EXCEPT !.r = NOMINAL, !.n = FALSE ]
     ELSE IF absDiff > ENTER_THRESHOLD \/ isNudging
       THEN IF ~ratesEqual(playbackRate[p], newRate)
              THEN [ same EXCEPT !.r = newRate, !.n = TRUE ]
              ELSE same
     ELSE same

\* syncCheck() past its first test: the leader is read and every stem is
\* passed through the forEach body
SyncPass ==
  /\ cachedLeader' = Leader
  /\ leaderRead' = Leader
  /\ IF Leader = None
       THEN UNCHANGED << currentTime, playbackRate, nudgingStems >>
       ELSE LET leaderTime == currentTime[Leader]
                res == [ p \in players |-> SyncStem(p, Leader, leaderTime) ]
            IN /\ currentTime' =
                    [ p \in Ids |-> IF p \in players THEN res[p].t
                                    ELSE currentTime[p] ]
               /\ playbackRate' =
                    [ p \in Ids |-> IF p \in players THEN res[p].r
                                    ELSE playbackRate[p] ]
               /\ nudgingStems' =
                    { p \in nudgingStems : p \notin players }
                      \cup { p \in players : res[p].n }

\* mutant: the check does not test isPlaying
syncCheckBody_unguarded == SyncPass

\* syncCheck(): what it does to the transport
syncCheckBody ==
  IF ~isPlaying
    THEN UNCHANGED << currentTime, playbackRate, nudgingStems, cachedLeader,
                      leaderRead >>
    ELSE SyncPass

syncCheck ==
  /\ last' = Snapshot("syncCheck")
  /\ syncCheckBody
  /\ UNCHANGED << outside, names, players, paused, isPlaying, pauseTime, duration, pending,
                  lastNotify >>

\* ------------------------------------------------------------------------
\* Environment.  Positions are kept on a coarse grid: the started elements
\* move on together by a wall-clock step, and a started stem other than the
\* clock reference can be found at any drift of Drifts from it (stall,
\* rebuffering, clock skew).
\* ------------------------------------------------------------------------
Started(p) == p \in players /\ ~paused[p]

Advance ==
  /\ \E step \in LeaderSteps :
       /\ \E p \in players : Started(p)
       /\ \A p \in players : Started(p) => currentTime[p] + step <= TrackDuration
       /\ currentTime' = [ p \in Ids |-> IF Started(p) THEN currentTime[p] + step
                                         ELSE currentTime[p] ]
  /\ last' = NoCall
  /\ UNCHANGED << outside, names, players, playbackRate, paused, isPlaying, pauseTime,
                  duration, cachedLeader, nudgingStems, pending, lastNotify,
                  leaderRead >>

Drift ==
  /\ \E ref \in { getLeader(players, names) } :
       /\ Started(ref)
       /\ \E q \in players \ {ref}, d \in Drifts :
            LET t == currentTime[ref] + d
            IN /\ Started(q)
               /\ t >= 0 /\ t <= TrackDuration /\ t # currentTime[q]
               /\ currentTime' = [ currentTime EXCEPT ![q] = t ]
  /\ last' = NoCall
  /\ UNCHANGED << outside, names, players, playbackRate, paused, isPlaying, pauseTime,
                  duration, cachedLeader, nudgingStems, pending, lastNotify,
                  leaderRead >>

\* ------------------------------------------------------------------------
\* Specification of the transport
\* ------------------------------------------------------------------------
\* the state after construction, for the stem names nm
TransportInit(nm) ==
  /\ names = nm
  /\ players = {}
  /\ currentTime = [ p \in DOMAIN nm |-> 0 ]
  /\ playbackRate = [ p \in DOMAIN nm |-> NOMINAL ]
  /\ paused = [ p \in DOMAIN nm |-> TRUE ]
  /\ isPlaying = FALSE
  /\ pauseTime = 0
  /\ duration = 0
  /\ cachedLeader = None
  /\ nudgingStems = {}
  /\ pending = << >>
  /\ lastNotify = "none"
  /\ leaderRead = None
  /\ last = NoCall

\* the transport on its own: a desktop page whose mix state is not used
InitWith(nm) ==
  /\ TransportInit(nm)
  /\ isMobile = FALSE
  /\ stemsLoaded = FALSE
  /\ stems = << >>
  /\ NoGraph
  /\ NoLoad
  /\ NoLoop

Init == InitWith(TransportConfig)

Next ==
  \/ \E S \in SUBSET StemIds : SetPlayers(S)
  \/ PlayCall
  \/ PlayResume
  \/ Pause
  \/ Stop
  \/ \E time \in SeekTargets : Seek(time)
  \/ skipBack
  \/ skipForward
  \/ restart
  \/ GetCurrentTime
  \/ syncCheck
  \/ Advance
  \/ Drift

Spec == Init /\ [][Next]_vars

\* ------------------------------------------------------------------------
\* Properties of syncCheck()
\* ------------------------------------------------------------------------
SyncDone == last.op = "syncCheck"
\* a sync check that ran while playing, with a leader
SyncRan == SyncDone /\ last.isPlaying /\ last.leader # None
\* the stems the check compared with the leader
Followers == players \ {last.leader}
\* drift of p from the leader at the start of the check, and what p was then
PreDrift(p) == last.currentTime[p] - last.currentTime[last.leader]
WasNudging(p) == p \in last.nudgingStems
LeaderTimeRead == last.currentTime[last.leader]

\* C1: in a sync check while playing, a non-leader stem outside the nudging
\* set with drift above 20 ms and at most 500 ms enters the set and gets a
\* non-nominal rate: below nominal when ahead, above nominal when behind.
C1_EnterNudge ==
  SyncRan =>
    \A p \in Followers :
      (~WasNudging(p) /\ Abs(PreDrift(p)) > 20 /\ Abs(PreDrift(p)) <= 500) =>
        /\ p \in nudgingStems
        /\ ~isRateNormal(playbackRate[p])
        /\ (PreDrift(p) > 0 => playbackRate[p] < NOMINAL)
        /\ (PreDrift(p) < 0 => playbackRate[p] > NOMINAL)

C1_Witness ==
  /\ SyncRan
  /\ \E p \in Followers :
       /\ ~WasNudging(p) /\ PreDrift(p) = 21
       /\ p \in nudgingStems /\ playbackRate[p] < NOMINAL

\* C2: in a sync check while playing, a stem of the nudging set whose absolute
\* drift is under 5 ms gets the nominal rate and leaves the set.
C2_ExitNudge ==
  SyncRan =>
    \A p \in players :
      (WasNudging(p) /\ Abs(PreDrift(p)) < 5) =>
        /\ playbackRate[p] = NOMINAL
        /\ p \notin nudgingStems

C2_Witness ==
  /\ SyncRan
  /\ \E p \in players :
       /\ WasNudging(p) /\ Abs(PreDrift(p)) = 4
       /\ last.playbackRate[p] # NOMINAL
       /\ playbackRate[p] = NOMINAL /\ p \notin nudgingStems

\* C3: a sync check leaves a non-leader stem outside the nudging set with
\* absolute drift of at most 20 ms untouched: same rate, same position, still
\* outside the set (dead zone).
C3_DeadZone ==
  (SyncDone /\ last.leader # None) =>
    \A p \in Followers :
      (~WasNudging(p) /\ Abs(PreDrift(p)) <= 20) =>
        /\ playbackRate[p] = last.playbackRate[p]
        /\ currentTime[p] = last.currentTime[p]
        /\ p \notin nudgingStems

C3_Witness ==
  /\ SyncRan
  /\ \E p \in Followers :
       /\ ~WasNudging(p) /\ PreDrift(p) = 20
       /\ playbackRate[p] = NOMINAL /\ p \notin nudgingStems

\* C4: in a sync check while playing, every non-leader stem with absolute
\* drift above 500 ms is put at the leader position read by the check, gets
\* the nominal rate and is outside the nudging set afterwards, nudged before
\* or not.
C4_HardResync ==
  SyncRan =>
    \A p \in Followers :
      Abs(PreDrift(p)) > 500 =>
        /\ currentTime[p] = LeaderTimeRead
        /\ playbackRate[p] = NOMINAL
        /\ p \notin nudgingStems

C4_Witness ==
  /\ SyncRan
  /\ \E p \in Followers :
       /\ WasNudging(p) /\ Abs(PreDrift(p)) = 501
       /\ currentTime[p] = LeaderTimeRead /\ p \notin nudgingStems

\* C6: whenever a sync check nudges a stem, the rate is 1.005 if the stem is
\* behind by more than 50 ms, 1.002 if behind by 50 ms or less, 0.995 if ahead
\* by more than 50 ms, 0.998 if ahead by 50 ms or less, and the stem is in the
\* nudging set after the check.
Nudged(p) ==
  /\ Abs(PreDrift(p)) <= 500
  /\ \/ ~WasNudging(p) /\ Abs(PreDrift(p)) > 20
     \/ WasNudging(p) /\ Abs(PreDrift(p)) >= 5

FourRates(d) ==
  IF d < -50 THEN 10050
  ELSE IF d < 0 THEN 10020
  ELSE IF d > 50 THEN 9950
  ELSE 9980

C6_NudgeRates ==
  SyncRan =>
    \A p \in Followers :
      Nudged(p) => /\ playbackRate[p] = FourRates(PreDrift(p))
                   /\ p \in nudgingStems

C6_Witness ==
  /\ SyncRan
  /\ \E p \in Followers :
       /\ Nudged(p) /\ PreDrift(p) = -50
       /\ playbackRate[p] = 10020 /\ p \in nudgingStems

\* C5: a stem of the nudging set stays in it, with a non-nominal rate, through
\* every sync check in which its absolute drift is at least 5 ms and at most
\* 500 ms, dead zone included; it leaves the set only by the under-5 ms exit,
\* by a hard resync, by the rate reset of pause/stop/seek, or when the stem
\* set is replaced.
StaysNudged ==
  SyncRan =>
    \A p \in Followers :
      (WasNudging(p) /\ Abs(PreDrift(p)) >= 5 /\ Abs(PreDrift(p)) <= 500) =>
        /\ p \in nudgingStems
        /\ ~isRateNormal(playbackRate[p])

DriftNow(p) == currentTime[p] - currentTime[Leader]

LeavesOnlyBy ==
  \A p \in StemIds :
    (p \in nudgingStems /\ p \notin nudgingStems') =>
      \/ /\ last'.op = "syncCheck"
         /\ Abs(DriftNow(p)) < 5 \/ Abs(DriftNow(p)) > 500
      \/ last'.op \in {"pause", "stop"}
      \/ last'.op \in {"seek", "skipBack", "skipForward", "restart"} /\ isPlaying
      \/ last'.op = "setPlayers"

C5_Hysteresis == [] StaysNudged /\ [][LeavesOnlyBy]_vars

C5_Witness ==
  /\ SyncRan
  /\ \E p \in Followers :
       /\ WasNudging(p) /\ Abs(PreDrift(p)) \in {5, 20}
       /\ p \in nudgingStems /\ ~isRateNormal(playbackRate[p])

\* C9: between two setPlayers calls every read of the leader (by pause,
\* getCurrentTime and syncCheck) returns the same stem, whatever else happens
\* in between, and the first read after a setPlayers call elects over the new
\* stem set.
ReadIsElected == leaderRead # None => leaderRead = getLeader(players, names)

ReadIsStable ==
  (leaderRead # None /\ leaderRead' # None) => leaderRead' = leaderRead

C9_StableLeader == [] ReadIsElected /\ [][ReadIsStable]_vars

\* a leader read over a stem set that replaced an earlier one while playing
C9_Witness ==
  /\ players = {0} /\ leaderRead = 0
  /\ isPlaying /\ paused[0] /\ pending = << >>
  /\ last.op = "syncCheck"

\* C10: after pause() every stem has the nominal rate and is paused, the
\* nudging set is empty, the transport is not playing and the resume position
\* is the leader's position; a play() that then starts the stems starts them
\* at the nominal rate.
AllNominal == \A p \in players : isRateNormal(playbackRate[p])

C10_PauseResets ==
  /\ last.op = "pause" =>
       /\ AllNominal
       /\ nudgingStems = {}
       /\ \A p \in players : paused[p]
       /\ ~isPlaying
       /\ players # {} => pauseTime = currentTime[getLeader(players, names)]
  /\ (last.op = "playResume" /\ last.arg = 0) => AllNominal

C10_Witness ==
  /\ last.op = "pause"
  /\ \E p \in players : currentTime[p] # currentTime[getLeader(players, names)]
  /\ pauseTime = currentTime[getLeader(players, names)]
  /\ pauseTime > 0

\* ------------------------------------------------------------------------
\* Properties of stop(), seek() and play()
\* ------------------------------------------------------------------------
\* C11: after stop(), whatever the transport state it was called in, the
\* transport is not playing, the resume position is 0, every stem is paused at
\* position 0 with the nominal rate, the nudging set is empty and the listener
\* was notified with 'stopped'.
C11_StopResets ==
  last.op = "stop" =>
    /\ ~isPlaying
    /\ pauseTime = 0
    /\ \A p \in players :
         paused[p] /\ currentTime[p] = 0 /\ isRateNormal(playbackRate[p])
    /\ nudgingStems = {}
    /\ lastNotify = "stopped"

\* a stop of a playing transport with two stems
C11_Witness ==
  /\ last.op = "stop" /\ last.arg = 1
  /\ Cardinality(players) = 2
  /\ \A p \in players : paused[p] /\ currentTime[p] = 0

\* C12: seek(t), also as called by skipBack, skipForward and restart, leaves
\* the resume position and every stem's position at t clamped into
\* [0, duration]; when the transport was playing all rates are nominal and the
\* nudging set is empty; the transport state is the same right after the call,
\* and the play() that a seek of a playing transport re-invokes leaves the
\* transport playing with its stems started.
Clamped(t) == IF t < 0 THEN 0 ELSE IF t > duration THEN duration ELSE t

SeekOps == {"seek", "skipBack", "skipForward", "restart"}

SeekLands ==
  last.op \in SeekOps =>
    /\ pauseTime = Clamped(last.arg)
    /\ \A p \in players : currentTime[p] = Clamped(last.arg)
    /\ isPlaying => (AllNominal /\ nudgingStems = {})

SeekReplayed ==
  (last.op = "playResume" /\ last.seek) =>
    /\ isPlaying
    /\ ~last.stale => \A p \in players : ~paused[p]

SeekKeepsState ==
  last'.op \in SeekOps =>
    /\ isPlaying' = isPlaying
    /\ (isPlaying /\ players # {}) =>
         /\ Len(pending') = Len(pending) + 1
         /\ pending'[Len(pending')].seek

C12_SeekClamps == [] (SeekLands /\ SeekReplayed) /\ [][SeekKeepsState]_vars

\* a seek to position 0 of a playing transport, completed by the play() that
\* it re-invoked
C12_Witness ==
  /\ last.op = "playResume" /\ last.seek /\ ~last.stale
  /\ isPlaying /\ pauseTime = 0 /\ players # {}
  /\ \A p \in players : ~paused[p] /\ currentTime[p] = 0

\* C13: play() with at least one stem puts exactly the stems more than 100 ms
\* away from the resume position at the resume position, leaves the position
\* of every other stem as it is, starts every stem in the same step and marks
\* the transport playing; with no stems it changes nothing.
PlayStarts ==
  (last'.op = "playResume" /\ ~last'.stale) =>
    /\ \A p \in players :
         /\ currentTime'[p] =
              (IF currentTime[p] - pauseTime > 100 \/ pauseTime - currentTime[p] > 100
                 THEN pauseTime ELSE currentTime[p])
         /\ ~paused'[p]
    /\ isPlaying'
    /\ players # {}

PlayNoStems ==
  last'.op = "play" =>
    /\ players = {}
    /\ UNCHANGED << outside, names, players, currentTime, playbackRate, paused,
                    isPlaying, pauseTime, duration, cachedLeader, nudgingStems,
                    pending, lastNotify, leaderRead >>

C13_OptimisticStart == [][PlayStarts /\ PlayNoStems]_vars

\* a play() that moved one stem back to the resume position and started
\* another one where it was
C13_Witness ==
  /\ last.op = "playResume" /\ ~last.stale
  /\ \E p \in players : p \in last.moved /\ currentTime[p] = pauseTime
  /\ \E q \in players : q \notin last.moved
  /\ isPlaying /\ \A p \in players : ~paused[p]

\* ------------------------------------------------------------------------
\* Specification of the page (mixer-app.js): the device is mobile or not, the
\* stems are handed to the transport once, the user works the transport
\* buttons, and the animation loop runs the progress task and, where it is
\* registered, the sync task.
\* ------------------------------------------------------------------------
InitApp ==
  /\ TransportInit(TransportConfig)
  /\ isMobile \in BOOLEAN
  /\ stemsLoaded = FALSE
  /\ stems = << >>
  /\ NoGraph
  /\ NoLoad
  /\ NoLoop

\* loadStems(): the stems that loaded are handed to the transport, and
\* initMixer() shows the mixer
loadStems ==
  /\ ~stemsLoaded
  /\ \E S \in SUBSET StemIds : SetPlayersBody(S, None)
  /\ stemsLoaded' = TRUE
  /\ mixerPanel' = "block"
  /\ UNCHANGED << isMobile, stems, graph, sched, stemLoad, loaded, batchAt, loadPhase >>

\* click on the play button
PlayButton == IF isPlaying THEN Pause ELSE PlayCall

\* updateProgress(), the progress task: it shows the time it reads
updateProgress ==
  /\ GetCurrentTimeBody
  /\ last' = Call("updateProgress", CurrentTimeValue)

\* mutant: the sync task is registered on every device
SyncTaskRegistered_always == TRUE

\* initAnimationLoop(): the sync task is added unless the device is mobile
SyncTaskRegistered == ~isMobile

\* the sync task, with its condition
SyncTask == SyncTaskRegistered /\ isPlaying /\ syncCheck

NextApp ==
  \/ loadStems
  \/ PlayButton
  \/ PlayResume
  \/ Stop
  \/ skipBack
  \/ skipForward
  \/ restart
  \/ updateProgress
  \/ SyncTask
  \/ Advance
  \/ Drift

SpecApp == InitApp /\ [][NextApp]_vars

\* C14: in every state of the page the time that getCurrentTime() reports is
\* the leader's position when the transport is playing stems and the stored
\* pause position when it is not playing, and the progress task has shown
\* that value; it is not the position of another stem.
ReportedTime ==
  IF isPlaying /\ players # {}
    THEN currentTime[getLeader(players, names)] ELSE pauseTime

C14_ReportedTime ==
  /\ CurrentTimeValue = ReportedTime
  /\ last.op = "updateProgress" => last.arg = ReportedTime

\* the progress task while a follower is 51 ms ahead of the leader
C14_Witness ==
  /\ last.op = "updateProgress" /\ isPlaying
  /\ \E p \in players :
       currentTime[p] = currentTime[getLeader(players, names)] + 51
  /\ last.arg = currentTime[getLeader(players, names)]
  /\ last.arg # pauseTime

\* C15: on a mobile device the sync check never runs, every stem keeps the
\* nominal rate, the nudging set stays empty, and a stem's position is changed
\* only by play, stop and seek (skip, restart) or by the media element itself.
MobileNoCorrection ==
  isMobile =>
    /\ last.op # "syncCheck"
    /\ \A p \in Ids : playbackRate[p] = NOMINAL
    /\ nudgingStems = {}

MobilePositions ==
  isMobile =>
    \/ currentTime' = currentTime
    \/ last'.op \in {"playResume", "stop"} \cup SeekOps
    \/ Advance
    \/ Drift

C15_MobileNoSync == [] MobileNoCorrection /\ [][MobilePositions]_vars

\* a frame on a mobile device while a stem is 501 ms ahead of the leader
C15_Witness ==
  /\ isMobile /\ isPlaying /\ last.op = "updateProgress"
  /\ \E p \in players :
       /\ currentTime[p] = currentTime[getLeader(players, names)] + 501
       /\ ~paused[p] /\ playbackRate[p] = NOMINAL

\* ------------------------------------------------------------------------
\* Specification of leader election: any stem names, any loaded subset, and
\* pause() as the reader of the leader
\* ------------------------------------------------------------------------
LeaderIds == 0 .. (MaxLeaderStems - 1)

InitLeader == \E nm \in [ LeaderIds -> NameSet ] : InitWith(nm)

NextLeader ==
  \/ \E S \in SUBSET LeaderIds : SetPlayers(S)
  \/ Pause

SpecLeader == InitLeader /\ [][NextLeader]_vars

\* the pattern scores as documented, and the score of a name under them
DocScores == <<100, 90, 80, 70, 60, 50, 40, 20>>

DocScoreOf(name) ==
  LET matched == { k \in 1 .. 8 : PatternTest(k, name) }
  IN IF matched = {} THEN 0
     ELSE CHOOSE v \in { DocScores[k] : k \in matched } :
            \A k \in matched : DocScores[k] <= v

DocScoreTable == [ name \in NameSet |-> DocScoreOf(name) ]
DocScore(name) == DocScoreTable[name]

DriftPlayers == {0, 1}
DriftLeader == getLeader(DriftPlayers, TransportConfig)
DriftFollower == CHOOSE p \in DriftPlayers : p # DriftLeader
\* the leader is far enough into the track for a follower 500 ms behind
DriftStart == 2 * HARD_SYNC_THRESHOLD

InitialDrifts == { d \in -500 .. 500 : Abs(d) > 20 }

InitDrift ==
  /\ names = TransportConfig
  /\ players = DriftPlayers
  /\ \E d \in InitialDrifts :
       currentTime = [ p \in StemIds |-> IF p = DriftLeader THEN DriftStart
                                         ELSE IF p = DriftFollower THEN DriftStart + d
                                         ELSE 0 ]
  /\ playbackRate = [ p \in StemIds |-> NOMINAL ]
  /\ paused = [ p \in StemIds |-> p \notin DriftPlayers ]
  /\ isPlaying = TRUE
  /\ pauseTime = 0
  /\ duration = DriftHorizon
  /\ cachedLeader = None
  /\ nudgingStems = {}
  /\ pending = << >>
  /\ lastNotify = "playing"
  /\ leaderRead = None
  /\ last = NoCall
  /\ isMobile = FALSE
  /\ stemsLoaded = TRUE
  /\ stems = << >>
  /\ NoGraph
  /\ NoLoad
  /\ NoLoop

\* one second of wall-clock time: rate r/10000 moves a stem on by r/10 ms
DriftTick ==
  /\ last.op # "tick"
  /\ \A p \in players : currentTime[p] + (playbackRate[p] \div 10) <= DriftHorizon
  /\ currentTime' = [ p \in Ids |-> IF Started(p)
                                      THEN currentTime[p] + (playbackRate[p] \div 10)
                                      ELSE currentTime[p] ]
  /\ last' = Call("tick", None)
  /\ UNCHANGED << outside, names, players, playbackRate, paused, isPlaying, pauseTime,
                  duration, cachedLeader, nudgingStems, pending, lastNotify,
                  leaderRead >>

\* the sync task of the animation loop, due once per second
DriftCheck == last.op = "tick" /\ syncCheck

NextDrift == DriftTick \/ DriftCheck

SpecDrift ==
  InitDrift /\ [][NextDrift]_vars /\ WF_vars(DriftTick) /\ WF_vars(DriftCheck)

\* C7: when the drift changes only by the follower's own rate offset and the
\* checks are one second apart, a follower that starts with absolute drift
\* above 20 ms and at most 500 ms eventually has the nominal rate, is outside
\* the nudging set and has absolute drift under 5 ms, and stays so for good
\* (it is never nudged again).
Settled ==
  /\ isRateNormal(playbackRate[DriftFollower])
  /\ DriftFollower \notin nudgingStems
  /\ Abs(currentTime[DriftFollower] - currentTime[DriftLeader]) < 5

StaysSettled == Settled => Settled'

C7_Converges == <>[] Settled /\ [][StaysSettled]_vars

\* the exit check that ends the correction
C7_Witness ==
  /\ SyncRan /\ WasNudging(DriftFollower)
  /\ last.playbackRate[DriftFollower] = 9980
  /\ Settled

\* ------------------------------------------------------------------------
\* Mix state (class MixerState of mixer-templates.js) and the share string.
\*
\* Units: every numeric field of a stem is an integer number of thousandths
\* of the unit the code stores (volume 0.8 = 800, eq.low 12 dB = 12000,
\* filter.freq 20000 Hz = 20000000); the rolloff is in dB per octave.  A
\* string is the sequence of its characters.
\* ------------------------------------------------------------------------
\* the value NaN of a number
NaN == -(2^30)

\* mutant: Math.floor in place of Math.round
RoundDiv_floor(n, d) == n \div d

\* Math.round(n / d) for d > 0: the nearest integer, a half goes up
RoundDiv(n, d) == (2 * n + d) \div (2 * d)

DigitChars == <<"0", "1", "2", "3", "4", "5", "6", "7", "8", "9">>
IsDigit(c) == \E d \in 1 .. 10 : DigitChars[d] = c
DigitValue(c) == (CHOOSE d \in 1 .. 10 : DigitChars[d] = c) - 1

RECURSIVE Digits(_)
Digits(n) ==
  IF n < 10 THEN << DigitChars[n + 1] >>
  ELSE Digits(n \div 10) \o << DigitChars[(n % 10) + 1] >>

\* String(n) of an integer-valued number, as Array.prototype.join uses it
NumberToString(n) ==
  IF n = NaN THEN <<"N", "a", "N">>
  ELSE IF n < 0 THEN <<"-">> \o Digits(-n)
  ELSE Digits(n)

\* Array.prototype.join
RECURSIVE Join(_, _)
Join(parts, sep) ==
  IF parts = << >> THEN << >>
  ELSE IF Len(parts) = 1 THEN parts[1]
  ELSE parts[1] \o << sep >> \o Join(Tail(parts), sep)

\* String.prototype.split with a one-character separator: the piece before
\* the first separator, then the pieces of the rest
RECURSIVE Split(_, _)
Split(str, sep) ==
  LET seps == { i \in 1 .. Len(str) : str[i] = sep }
  IN IF seps = {} THEN << str >>
     ELSE << SubSeq(str, 1, MinOf(seps) - 1) >>
            \o Split(SubSeq(str, MinOf(seps) + 1, Len(str)), sep)

\* the digits of str from position i on: their number and their value
RECURSIVE DigitRun(_, _, _, _)
DigitRun(str, i, count, value) ==
  IF i <= Len(str) /\ IsDigit(str[i])
    THEN DigitRun(str, i + 1, count + 1, 10 * value + DigitValue(str[i]))
    ELSE [ count |-> count, value |-> value, next |-> i ]

\* parseInt(str): an optional sign and the leading digits, NaN without digits
parseInt(str) ==
  LET neg == Len(str) > 0 /\ str[1] = "-"
      run == DigitRun(str, IF neg THEN 2 ELSE 1, 0, 0)
  IN IF run.count = 0 THEN NaN
     ELSE IF neg THEN -run.value ELSE run.value

\* parseFloat(str) in thousandths: sign, digits, and up to three digits after
\* a decimal point; NaN when there is no digit
parseFloat(str) ==
  LET neg == Len(str) > 0 /\ str[1] = "-"
      whole == DigitRun(str, IF neg THEN 2 ELSE 1, 0, 0)
      hasPoint == whole.next <= Len(str) /\ str[whole.next] = "."
      frac == IF hasPoint THEN DigitRun(str, whole.next + 1, 0, 0)
              ELSE [ count |-> 0, value |-> 0, next |-> whole.next ]
      fracThousandths ==
        CASE frac.count = 0 -> 0
          [] frac.count = 1 -> 100 * frac.value
          [] frac.count = 2 -> 10 * frac.value
          [] OTHER -> frac.value \div (10 ^ (frac.count - 3))
      magnitude == 1000 * whole.value + fracThousandths
  IN IF whole.count = 0 /\ frac.count = 0 THEN NaN
     ELSE IF neg THEN -magnitude ELSE magnitude

\* the fields of a stem in the order of the share string (values[1..15])
FieldOrder ==
  << "volume", "muted", "solo", "pan", "eqLow", "eqMid", "eqHigh", "filterType",
     "filterFreq", "filterRes", "reverbSend", "delayTime", "delayFeedback",
     "delayMix", "rolloff" >>

Fields == { FieldOrder[i] : i \in 1 .. Len(FieldOrder) }
Position(f) == CHOOSE i \in 1 .. Len(FieldOrder) : FieldOrder[i] = f

NumericFields ==
  { "volume", "pan", "eqLow", "eqMid", "eqHigh", "filterFreq", "filterRes",
    "reverbSend", "delayTime", "delayFeedback", "delayMix" }

\* the factor between a stored value and its number in the share string
Scale(f) ==
  CASE f \in {"volume", "pan", "delayTime", "delayFeedback"} -> 100
    [] f \in {"eqLow", "eqMid", "eqHigh", "filterRes"} -> 10
    [] OTHER -> 1

FILTER_TYPES == <<"lowpass", "highpass", "bandpass">>

\* FILTER_TYPE_MAP[type] || 0
FilterTypeIndex(type) ==
  CASE type = "highpass" -> 1
    [] type = "bandpass" -> 2
    [] OTHER -> 0

\* mutant: an index past the table is taken as the last type
FilterTypeOf_clamped(i) ==
  IF i = NaN \/ i < 0 THEN "lowpass"
  ELSE IF i >= Len(FILTER_TYPES) THEN FILTER_TYPES[Len(FILTER_TYPES)]
  ELSE FILTER_TYPES[i + 1]

\* FILTER_TYPES[i] || 'lowpass'
FilterTypeOf(i) ==
  IF i # NaN /\ i >= 0 /\ i < Len(FILTER_TYPES) THEN FILTER_TYPES[i + 1]
  ELSE "lowpass"

\* DEFAULT_STEM_STATE with DEFAULT_FX_STATE
DefaultStemState ==
  [ volume |-> 800, muted |-> FALSE, solo |-> FALSE, pan |-> 0,
    eqLow |-> 0, eqMid |-> 0, eqHigh |-> 0, filterType |-> "lowpass",
    filterFreq |-> 20000000, filterRes |-> 1000, reverbSend |-> 0,
    delayTime |-> 375, delayFeedback |-> 300, delayMix |-> 0, rolloff |-> -12 ]

\* toShareUrl(): the number or flag written for field f of a stem
EncodeField(f, v) ==
  CASE f \in {"muted", "solo"} -> IF v THEN <<"1">> ELSE <<"0">>
    [] f = "filterType" -> NumberToString(FilterTypeIndex(v))
    [] f = "rolloff" -> NumberToString(IF v = 0 \/ v = NaN THEN -12 ELSE v)
    [] OTHER -> NumberToString(IF v = NaN THEN NaN ELSE RoundDiv(v * Scale(f), 1000))

\* toShareUrl(): the entry of one stem and the mix parameter
EncodeStem(index, stem) ==
  Join(<< NumberToString(index) >>
         \o [ i \in 1 .. Len(FieldOrder) |-> EncodeField(FieldOrder[i], stem[FieldOrder[i]]) ],
       ":")

RECURSIVE EncodeFrom(_, _)
EncodeFrom(st, todo) ==
  IF todo = {} THEN << >>
  ELSE LET index == MinOf(todo)
       IN << EncodeStem(index, st[index]) >> \o EncodeFrom(st, todo \ {index})

toShareUrl(st) == Join(EncodeFrom(st, DOMAIN st), ",")

\* applyFromUrl(): the value stored for field f from its text
DecodeField(f, text) ==
  CASE f \in {"muted", "solo"} -> text = <<"1">>
    [] f = "filterType" -> FilterTypeOf(parseInt(text))
    [] f = "rolloff" -> parseInt(text)
    [] OTHER -> IF parseFloat(text) = NaN THEN NaN ELSE parseFloat(text) \div Scale(f)

\* mutant: a field that the entry does not carry gets its default
DecodeStem_defaults(stem, values) ==
  [ f \in Fields |-> IF Position(f) + 1 <= Len(values)
                       THEN DecodeField(f, values[Position(f) + 1])
                       ELSE DefaultStemState[f] ]

\* applyFromUrl(): the stem after the `values[k] !== undefined` assignments
DecodeStem(stem, values) ==
  [ f \in Fields |-> IF Position(f) + 1 <= Len(values)
                       THEN DecodeField(f, values[Position(f) + 1])
                       ELSE stem[f] ]

\* mutant: an index that is not a number is taken as 0
ApplyPart_firstStem(st, part) ==
  LET values == Split(part, ":")
      parsed == parseInt(values[1])
      index == IF parsed = NaN THEN 0 ELSE parsed
  IN IF index \notin DOMAIN st THEN st
     ELSE [ st EXCEPT ![index] = DecodeStem(@, values) ]

\* applyFromUrl(): the body of the forEach over the entries
ApplyPart(st, part) ==
  LET values == Split(part, ":")
      index == parseInt(values[1])
  IN IF index \notin DOMAIN st THEN st
     ELSE [ st EXCEPT ![index] = DecodeStem(@, values) ]

RECURSIVE ApplyParts(_, _)
ApplyParts(st, parts) ==
  IF parts = << >> THEN st
  ELSE ApplyParts(ApplyPart(st, Head(parts)), Tail(parts))

\* applyFromUrl(mixString): the mix state it leaves
ApplyFromUrl(st, mixString) ==
  IF mixString = << >> THEN st ELSE ApplyParts(st, Split(mixString, ","))

\* the variables of the transport other than the call record
transport ==
  << names, players, currentTime, playbackRate, paused, isPlaying, pauseTime,
     duration, cachedLeader, nudgingStems, pending, lastNotify, leaderRead >>

\* ------------------------------------------------------------------------
\* Specification of the mix state: a page whose stems have any of a few mix
\* states, and one call of a setter or of the share-string decoder on it
\* ------------------------------------------------------------------------
\* mix states of a stem: the default, two states on and off the grid of the
\* share string, and one with small negative values
StatePool ==
  { DefaultStemState,
    [ volume |-> 655, muted |-> TRUE, solo |-> FALSE, pan |-> -500,
      eqLow |-> -12000, eqMid |-> 3500, eqHigh |-> 12000, filterType |-> "highpass",
      filterFreq |-> 1000000, filterRes |-> 2500, reverbSend |-> 30000,
      delayTime |-> 2000, delayFeedback |-> 900, delayMix |-> 20000, rolloff |-> -24 ],
    [ volume |-> 4, muted |-> FALSE, solo |-> TRUE, pan |-> 1000,
      eqLow |-> 50, eqMid |-> 0, eqHigh |-> -149, filterType |-> "bandpass",
      filterFreq |-> 20400, filterRes |-> 100, reverbSend |-> 100000,
      delayTime |-> 10, delayFeedback |-> 0, delayMix |-> 100000, rolloff |-> -12 ],
    [ volume |-> 1000, muted |-> TRUE, solo |-> TRUE, pan |-> -5,
      eqLow |-> -50, eqMid |-> -12000, eqHigh |-> 11950, filterType |-> "lowpass",
      filterFreq |-> 19999500, filterRes |-> 9950, reverbSend |-> 500,
      delayTime |-> 1995, delayFeedback |-> 895, delayMix |-> 99500, rolloff |-> -24 ] }

\* the documented range of a numeric field
Range(f) ==
  CASE f = "volume" -> [ lo |-> 0, hi |-> 1000 ]
    [] f = "pan" -> [ lo |-> -1000, hi |-> 1000 ]
    [] f \in {"eqLow", "eqMid", "eqHigh"} -> [ lo |-> -12000, hi |-> 12000 ]
    [] f = "filterFreq" -> [ lo |-> 20000, hi |-> 20000000 ]
    [] f = "filterRes" -> [ lo |-> 100, hi |-> 10000 ]
    [] f \in {"reverbSend", "delayMix"} -> [ lo |-> 0, hi |-> 100000 ]
    [] f = "delayTime" -> [ lo |-> 10, hi |-> 2000 ]
    [] f = "delayFeedback" -> [ lo |-> 0, hi |-> 900 ]

\* values handed to a setter: in the range, just outside it, and 999
SetterValues(f) ==
  { Range(f).lo - 1, Range(f).lo, Range(f).hi, Range(f).hi + 1, 999 * 1000 }

\* indices handed to a setter or written in an entry: the stems and two others
IndexInputs == StemIds \cup { MaxStems + 7, -1 }

InitMix ==
  /\ TransportInit(TransportConfig)
  /\ isMobile = FALSE
  /\ stemsLoaded = FALSE
  /\ stems \in [ StemIds -> StatePool ]
  /\ NoGraph
  /\ NoLoad
  /\ NoLoop

\* updateStemVolume(index, value)
updateStemVolume ==
  /\ last = NoCall
  /\ \E index \in IndexInputs, value \in SetterValues("volume") :
       /\ stems' = IF index \in DOMAIN stems
                     THEN [ stems EXCEPT ![index].volume = value ] ELSE stems
       /\ last' = [ op |-> "updateStemVolume", index |-> index, field |-> "volume",
                    value |-> value ]
  /\ UNCHANGED << transport, page, graph >>

\* updateFX(index, fxType, param, value) for the numeric parameters
updateFX ==
  /\ last = NoCall
  /\ \E index \in IndexInputs, f \in NumericFields \ {"volume"} :
       \E value \in SetterValues(f) :
         /\ stems' = IF index \in DOMAIN stems
                       THEN [ stems EXCEPT ![index][f] = value ] ELSE stems
         /\ last' = [ op |-> "updateFX", index |-> index, field |-> f, value |-> value ]
  /\ UNCHANGED << transport, page, graph >>

\* the texts of the fields of a well-formed entry (the documented example)
SampleNumbers == <<65, 0, 1, 50, 0, 0, 0, 1, 1000, 25, 30, 50, 40, 20, -24>>
SampleTexts == [ i \in 1 .. Len(SampleNumbers) |-> NumberToString(SampleNumbers[i]) ]

\* the texts of an odd entry: not numbers, empty, fractional, out of range
OddTexts ==
  << <<"x">>, << >>, <<"1">>, <<"-", "1", "0", "0">>, <<"9", "9", "9">>, <<"-", "5">>,
     <<"1", ".", "5">>, <<"7">>, <<"x">>, <<"0">>, << >>, <<"1">>, <<"1">>, <<"1">>,
     <<"x">> >>

\* what an entry can have in front: the number it denotes and its text
IndexChoices ==
  { [ stem |-> n, text |-> NumberToString(n) ] : n \in IndexInputs }
    \cup { [ stem |-> NaN, text |-> <<"x">> ], [ stem |-> NaN, text |-> << >> ] }

\* what an entry can have as filter type: the index it denotes and its text
FilterChoices ==
  { [ filter |-> n, text |-> NumberToString(n) ] : n \in {0, 1, 2, 3, -1} }
    \cup { [ filter |-> NaN, text |-> <<"x">> ], [ filter |-> NaN, text |-> << >> ] }

\* an entry with the first k fields after the index: its texts, and for the
\* properties the stem and the filter index they denote
Entry(ix, k, texts, fc) ==
  [ stem |-> ix.stem, fields |-> k,
    filter |-> IF k >= Position("filterType") THEN fc.filter ELSE NaN,
    text |-> << ix.text >>
               \o [ i \in 1 .. k |-> IF i = Position("filterType") THEN fc.text
                                     ELSE texts[i] ] ]

SampleFilter == [ filter |-> 1, text |-> <<"1">> ]
OddFilter == [ filter |-> 7, text |-> <<"7">> ]

EntryPool ==
  { Entry(ix, k, SampleTexts, SampleFilter) :
      ix \in IndexChoices, k \in 0 .. Len(FieldOrder) }
    \cup { Entry(ix, Len(FieldOrder), SampleTexts, fc) :
             ix \in IndexChoices, fc \in FilterChoices }
    \cup { Entry(ix, Len(FieldOrder), OddTexts, OddFilter) : ix \in IndexChoices }

\* the entries that also come in pairs
PairPool ==
  { Entry(ix, k, SampleTexts, SampleFilter) : ix \in IndexChoices, k \in {3, 15} }

MixInputs ==
  { << >> } \cup { << e >> : e \in EntryPool }
    \cup { << a, b >> : a \in PairPool, b \in PairPool }

\* the mix string with the given entries
MixString(entries) ==
  Join([ i \in 1 .. Len(entries) |-> Join(entries[i].text, ":") ], ",")

\* mixerState.applyFromUrl(INITIAL_MIX_STATE)
applyFromUrl ==
  /\ last = NoCall
  /\ \E entries \in MixInputs :
       /\ stems' = ApplyFromUrl(stems, MixString(entries))
       /\ last' = [ op |-> "applyFromUrl", entries |-> entries, before |-> stems ]
  /\ UNCHANGED << transport, page, graph >>

\* the mix states a share string is decoded into: every stem in the same state
TargetPool == { [ i \in StemIds |-> t ] : t \in StatePool }

\* the share link of this page opened in a page with the same stems: the mix
\* parameter of toShareUrl() is decoded by applyFromUrl()
applyShared ==
  /\ last = NoCall
  /\ \E target \in TargetPool :
       /\ stems' = ApplyFromUrl(target, toShareUrl(stems))
       /\ last' = [ op |-> "applyShared", before |-> stems, target |-> target ]
  /\ UNCHANGED << transport, page, graph >>

\* hasSolo(): some stem of the set is soloed
hasSolo(st) == \E i \in DOMAIN st : st[i].solo

\* the optional argument of isStemActive is a sequence: << >> is null and
\* <<b>> the flag b

\* mutant: the solo test comes before the mute test
isStemActive_soloFirst(st, index, flag) ==
  IF index \notin DOMAIN st THEN FALSE
  ELSE LET soloActive == IF flag # << >> THEN flag[1] ELSE hasSolo(st)
       IN IF soloActive /\ st[index].solo THEN TRUE
          ELSE IF st[index].muted THEN FALSE
          ELSE ~soloActive

\* isStemActive(index, hasSolo = null)
isStemActive(st, index, flag) ==
  IF index \notin DOMAIN st THEN FALSE
  ELSE IF st[index].muted THEN FALSE
  ELSE LET soloActive == IF flag # << >> THEN flag[1] ELSE hasSolo(st)
       IN IF soloActive /\ ~st[index].solo THEN FALSE ELSE TRUE

\* mixerState.isStemActive(index, hasSolo), called by the page
QueryStemActive ==
  /\ last = NoCall
  /\ \E index \in IndexInputs, flag \in { << >>, <<TRUE>>, <<FALSE>> } :
       last' = [ op |-> "isStemActive", index |-> index, flag |-> flag,
                 value |-> isStemActive(stems, index, flag) ]
  /\ UNCHANGED << transport, outside >>

NextMix ==
  \/ updateStemVolume
  \/ updateFX
  \/ applyFromUrl
  \/ applyShared
  \/ QueryStemActive

SpecMix == InitMix /\ [][NextMix]_vars

\* C16 (as claimed): a numeric setter called with a value outside the
\* documented range stores the nearest boundary value.
ClampTo(f, v) ==
  IF v < Range(f).lo THEN Range(f).lo
  ELSE IF v > Range(f).hi THEN Range(f).hi
  ELSE v

C16_SettersClamp ==
  (last.op \in {"updateStemVolume", "updateFX"} /\ last.index \in DOMAIN stems) =>
    stems[last.index][last.field] = ClampTo(last.field, last.value)

\* C17: decoding the string that encodes a mix state, into any state of the
\* same stems, gives every flag, the filter type and the rolloff back as they
\* were, and every numeric field within half a unit of its share-string
\* number (0.005 of volume, 0.05 dB of EQ, 0.5 Hz of frequency).
FieldBack(f, before, after) ==
  IF f \in NumericFields
    THEN /\ 2 * Scale(f) * Abs(after - before) <= 1000
         /\ (after * Scale(f)) % 1000 = 0
    ELSE after = before

C17_RoundTrip ==
  last.op = "applyShared" =>
    /\ DOMAIN stems = DOMAIN last.before
    /\ \A i \in DOMAIN stems : \A f \in Fields :
         FieldBack(f, last.before[i][f], stems[i][f])

\* a delay time of 0.375 s comes back as 0.38 s, over a different mix state
C17_Witness ==
  /\ last.op = "applyShared"
  /\ \E i \in DOMAIN stems :
       /\ last.before[i].delayTime = 375 /\ stems[i].delayTime = 380
       /\ last.target[i].delayTime = 2000
       /\ last.target[i].filterType # last.before[i].filterType
       /\ stems[i].filterType = last.before[i].filterType
  /\ \E i \in DOMAIN stems : last.before[i].pan = -5 /\ stems[i].pan = 0

\* C18: decoding leaves a field of a stem as it was unless an entry for that
\* stem carries the field: an entry with its first k fields changes no later
\* field (with the index and three more, no FX field), and an empty mix
\* string changes nothing.
Carried(i, f) ==
  \E n \in 1 .. Len(last.entries) :
    last.entries[n].stem = i /\ last.entries[n].fields >= Position(f)

C18_MissingFieldsKept ==
  last.op = "applyFromUrl" =>
    /\ DOMAIN stems = DOMAIN last.before
    /\ \A i \in DOMAIN stems : \A f \in Fields :
         ~Carried(i, f) => stems[i][f] = last.before[i][f]
    /\ last.entries = << >> => stems = last.before

\* an entry of four fields over a stem with FX settings
C18_Witness ==
  /\ last.op = "applyFromUrl" /\ Len(last.entries) = 1
  /\ last.entries[1].fields = 3
  /\ \E i \in DOMAIN stems :
       /\ last.entries[1].stem = i
       /\ last.before[i].volume = 4 /\ stems[i].volume = 650
       /\ stems[i].solo /\ ~stems[i].muted
       /\ stems[i].pan = 1000 /\ stems[i].filterType = "bandpass"
       /\ stems[i].delayTime = 10

\* C19: an entry that carries a filter-type field stores lowpass, highpass or
\* bandpass for the indices 0, 1, 2 and lowpass for every other field (an
\* index out of range, a negative one, not a number).
TypeFor(index) ==
  CASE index = 0 -> "lowpass"
    [] index = 1 -> "highpass"
    [] index = 2 -> "bandpass"
    [] OTHER -> "lowpass"

C19_FilterFallback ==
  (last.op = "applyFromUrl" /\ Len(last.entries) = 1) =>
    LET e == last.entries[1]
    IN (e.stem \in DOMAIN stems /\ e.fields >= 8) =>
         stems[e.stem].filterType = TypeFor(e.filter)

\* index 3 over a stem whose filter was a bandpass
C19_Witness ==
  /\ last.op = "applyFromUrl" /\ Len(last.entries) = 1
  /\ last.entries[1].filter = 3
  /\ \E i \in DOMAIN stems :
       /\ last.entries[1].stem = i
       /\ last.before[i].filterType = "bandpass"
       /\ stems[i].filterType = "lowpass"

\* C20: an entry whose index is not a number or names no stem leaves the mix
\* state as it was before that entry, and the other entries of the string are
\* applied as if the rejected one were not there.
Rejected(e) == e.stem \notin DOMAIN last.before

Accepted(entries) == SelectSeq(entries, LAMBDA e : ~Rejected(e))

C20_RejectedEntries ==
  last.op = "applyFromUrl" =>
    /\ (\A n \in 1 .. Len(last.entries) : Rejected(last.entries[n]))
         => stems = last.before
    /\ stems = ApplyFromUrl(last.before, MixString(Accepted(last.entries)))

\* an entry without a numeric index followed by an entry that is applied
C20_Witness ==
  /\ last.op = "applyFromUrl" /\ Len(last.entries) = 2
  /\ last.entries[1].stem = NaN /\ last.entries[1].fields = 15
  /\ \E i \in DOMAIN stems :
       /\ last.entries[2].stem = i
       /\ stems[i].volume = 650 /\ last.before[i].volume = 1000
  /\ \E j \in DOMAIN stems : last.entries[2].stem # j /\ stems[j] = last.before[j]

\* ------------------------------------------------------------------------
\* Properties of the audibility query
\* ------------------------------------------------------------------------
\* the audibility of stem i as documented
Audible(i) ==
  IF stems[i].muted THEN FALSE
  ELSE IF \E j \in DOMAIN stems : stems[j].solo THEN stems[i].solo
  ELSE TRUE

\* C21: the audibility query returns false for a muted stem, else the stem's
\* own solo flag when any stem of the set is soloed, else true; and the
\* query given the precomputed any-solo flag returns what it returns when it
\* computes the flag itself.
C21_StemActive ==
  /\ (last.op = "isStemActive" /\ last.index \in DOMAIN stems
        /\ last.flag \in { << >>, << hasSolo(stems) >> })
       => last.value = Audible(last.index)
  /\ \A i \in DOMAIN stems :
       isStemActive(stems, i, << hasSolo(stems) >>) = isStemActive(stems, i, << >>)

\* a soloed but muted stem was asked for, with the precomputed flag
C21_Witness ==
  /\ last.op = "isStemActive" /\ last.index \in DOMAIN stems
  /\ last.flag = <<TRUE>> /\ hasSolo(stems)
  /\ stems[last.index].muted /\ stems[last.index].solo
  /\ last.value = FALSE
  /\ \E j \in DOMAIN stems : ~stems[j].muted /\ ~stems[j].solo

\* ------------------------------------------------------------------------
\* The filter of a stem (createFilter) in its chain, for the stem 0.  An
\* AudioParam has the value it has now and the target set by
\* setTargetAtTime; frequencies and Q are in thousandths, as in the mix state.
\* ------------------------------------------------------------------------
\* a node of the chain by name, and a filter stage by its creation number
Node(name) == << name, 0 >>
Stage(n) == << "filter", n >>

AudioParam(v) == [ value |-> v, target |-> v ]

\* createStages: a stage as it is created
NewStage == [ type |-> "lowpass", frequency |-> AudioParam(20000000), Q |-> AudioParam(1000) ]

\* createStages: `i < numStages` with numStages = Math.abs(rolloff) / 12
StageCount(rolloff) == (Abs(rolloff) + 11) \div 12

\* loadStems: the connections of the chain other than those of the filter,
\* with the connections inside the EQ, the delay and the reverb send
ChainWiring ==
  { << Node("source"), Node("eq.lowShelf") >>,
    << Node("eq.lowShelf"), Node("eq.mid") >>,
    << Node("eq.mid"), Node("eq.highShelf") >>,
    << Node("delay.dry"), Node("delay.delayNode") >>,
    << Node("delay.dry"), Node("delay.merger") >>,
    << Node("delay.delayNode"), Node("delay.feedback") >>,
    << Node("delay.feedback"), Node("delay.delayNode") >>,
    << Node("delay.delayNode"), Node("delay.wet") >>,
    << Node("delay.wet"), Node("delay.merger") >>,
    << Node("delay.merger"), Node("panner") >>,
    << Node("panner"), Node("gainNode") >>,
    << Node("panner"), Node("reverbSend") >>,
    << Node("reverbSend"), Node("masterReverb") >>,
    << Node("gainNode"), Node("analyser") >>,
    << Node("gainNode"), Node("meter") >> }

\* the stage nodes of a list of stages, and the connections between them
StageNodes(fs) == { Stage(fs[i]) : i \in 1 .. Len(fs) }
StageLinks(fs) == { << Stage(fs[i]), Stage(fs[i + 1]) >> : i \in 1 .. (Len(fs) - 1) }

\* mutant: setRolloff rebuilds the stages even for the slope it has
RolloffChanges_always(newRolloff) == TRUE

\* setRolloff: `if (newRolloff === currentRolloff) return false`
RolloffChanges(newRolloff) == newRolloff # currentRolloff

\* mutant: the new stages keep the settings they were created with
CarriedStage_fresh == NewStage

\* setRolloff: "store current settings" and "apply stored settings"
CarriedStage ==
  [ type |-> biquad[filters[1]].type,
    frequency |-> AudioParam(biquad[filters[1]].frequency.value),
    Q |-> AudioParam(biquad[filters[1]].Q.value) ]

\* mutant: only the old stages are disconnected, not the upstream node
Disconnected_stagesOnly(prevNode) ==
  { c \in connections : c[1] \notin StageNodes(filters) }

\* setRolloff: "disconnect old chain"
Disconnected(prevNode) ==
  { c \in connections : c[1] # prevNode /\ c[1] \notin StageNodes(filters) }

\* filter.setRolloff(newRolloff, prevNode, nextNode)
setRolloff(newRolloff, prevNode, nextNode) ==
  IF ~RolloffChanges(newRolloff)
    THEN UNCHANGED graph
    ELSE LET n == StageCount(newRolloff)
             made == filters[Len(filters)]
             fresh == [ i \in 1 .. n |-> made + i ]
         IN /\ made + n <= MaxBiquads
            /\ filters' = fresh
            /\ currentRolloff' = newRolloff
            /\ biquad' = [ k \in { fresh[i] : i \in 1 .. n } |-> CarriedStage ]
            /\ connections' = Disconnected(prevNode) \cup StageLinks(fresh)
                                \cup { << prevNode, Stage(fresh[1]) >>,
                                       << Stage(fresh[n]), nextNode >> }
            /\ UNCHANGED console

\* FXController._changeFilterRolloff(index, player, newRolloff), for the two
\* slopes of the selector and two that a share link can carry
changeFilterRolloff ==
  \E newRolloff \in { -12, -24, -36, -18 } :
    /\ setRolloff(newRolloff, Node("eq.highShelf"), Node("delay.dry"))
    /\ stems' = IF RolloffChanges(newRolloff)
                  THEN [ stems EXCEPT ![0].rolloff = newRolloff ] ELSE stems
    /\ last' = [ op |-> "setRolloff", arg |-> newRolloff,
                 changed |-> RolloffChanges(newRolloff),
                 filters |-> filters, currentRolloff |-> currentRolloff,
                 biquad |-> biquad, connections |-> connections, stems |-> stems ]
    /\ UNCHANGED << transport, page >>

\* filter.setType(t)
setType ==
  /\ \E t \in { FILTER_TYPES[i] : i \in 1 .. Len(FILTER_TYPES) } :
       biquad' = [ k \in DOMAIN biquad |-> [ biquad[k] EXCEPT !.type = t ] ]
  /\ last' = NoCall
  /\ UNCHANGED << transport, page, stems, filters, currentRolloff, connections, console >>

\* mutant: only the first stage is given the frequency
setFrequency_firstStage ==
  /\ \E v \in { 20000000, 1000000 } :
       biquad' = [ biquad EXCEPT ![filters[1]].frequency.target = v ]
  /\ last' = NoCall
  /\ UNCHANGED << transport, page, stems, filters, currentRolloff, connections, console >>

\* filter.setFrequency(v, time)
setFrequency ==
  /\ \E v \in { 20000000, 1000000 } :
       biquad' = [ k \in DOMAIN biquad |-> [ biquad[k] EXCEPT !.frequency.target = v ] ]
  /\ last' = NoCall
  /\ UNCHANGED << transport, page, stems, filters, currentRolloff, connections, console >>

\* filter.setQ(v, time)
setQ ==
  /\ \E v \in { 1000, 5000 } :
       biquad' = [ k \in DOMAIN biquad |-> [ biquad[k] EXCEPT !.Q.target = v ] ]
  /\ last' = NoCall
  /\ UNCHANGED << transport, page, stems, filters, currentRolloff, connections, console >>

\* the audio clock: every parameter reaches the target it was given
Settle ==
  /\ \E k \in DOMAIN biquad :
       biquad[k].frequency.value # biquad[k].frequency.target
         \/ biquad[k].Q.value # biquad[k].Q.target
  /\ biquad' = [ k \in DOMAIN biquad |->
                   [ biquad[k] EXCEPT !.frequency.value = biquad[k].frequency.target,
                                      !.Q.value = biquad[k].Q.target ] ]
  /\ last' = NoCall
  /\ UNCHANGED << transport, page, stems, filters, currentRolloff, connections, console >>

\* the page after loadStems: createFilter() with the default slope, wired in
InitFilter ==
  /\ TransportInit(TransportConfig)
  /\ isMobile = FALSE
  /\ stemsLoaded = TRUE
  /\ stems = [ i \in StemIds |-> DefaultStemState ]
  /\ NoLoad
  /\ NoLoop
  /\ filters = << 1 >>
  /\ currentRolloff = -12
  /\ biquad = [ k \in { 1 } |-> NewStage ]
  /\ connections = ChainWiring \cup { << Node("eq.highShelf"), Stage(1) >>,
                                      << Stage(1), Node("delay.dry") >> }
  /\ NoConsole

NextFilter ==
  \/ changeFilterRolloff
  \/ setType
  \/ setFrequency
  \/ setQ
  \/ Settle

SpecFilter == InitFilter /\ [][NextFilter]_vars

\* ------------------------------------------------------------------------
\* Properties of setRolloff
\* ------------------------------------------------------------------------
\* C22: setRolloff with the slope the filter has returns false and changes
\* nothing: the stages, their type, frequency and Q, the connections and the
\* reported rolloff are as before the call.
C22_SameSlopeNoOp ==
  (last.op = "setRolloff" /\ last.arg = last.currentRolloff)
    => /\ ~last.changed
       /\ filters = last.filters
       /\ biquad = last.biquad
       /\ connections = last.connections
       /\ currentRolloff = last.currentRolloff
       /\ stems = last.stems

\* the -24 dB filter with a frequency under way was asked for -24 dB again
C22_Witness ==
  /\ last.op = "setRolloff" /\ last.arg = -24 /\ currentRolloff = -24
  /\ Len(filters) = 2
  /\ biquad[filters[1]].frequency.value # biquad[filters[1]].frequency.target

C30_ChainIntact ==
  (last.op = "setRolloff" /\ last.changed)
    => LET up == Node("eq.highShelf")
           down == Node("delay.dry")
           old == StageNodes(last.filters)
           new == StageNodes(filters)
           n == Len(filters)
       IN /\ { c \in connections : c[1] = up } = { << up, Stage(filters[1]) >> }
          /\ \A i \in 1 .. n :
               { c[2] : c \in { d \in connections : d[1] = Stage(filters[i]) } }
                 = { IF i < n THEN Stage(filters[i + 1]) ELSE down }
          /\ \A c \in connections : c[2] \in new => c[1] \in new \cup { up }
          /\ \A c \in connections : c[1] \notin old /\ c[2] \notin old
          /\ { c \in connections : c[1] \notin new \cup { up } } = ChainWiring
          /\ { c \in last.connections : c[1] \notin old \cup { up } } = ChainWiring

\* a two-stage filter replaced a one-stage filter
C30_Witness ==
  /\ last.op = "setRolloff" /\ last.changed
  /\ Len(last.filters) = 1 /\ Len(filters) = 2
  /\ << Stage(filters[1]), Stage(filters[2]) >> \in connections

\* ------------------------------------------------------------------------
\* Specification of stem loading: StemLoader.loadStems, called by the page's
\* loadStems() in initMixer(), for MaxLoadStems configured stems.  A stem is
\* waiting, fetching (the download), readying (the audio element loads the
\* blob, the 45 s timer runs), and then loaded or failed.
\* ------------------------------------------------------------------------
LoadIds == 0 .. (MaxLoadStems - 1)

\* BATCH_SIZE
batchSize == IF isMobile THEN 3 ELSE 10

\* mutant: the slice has no end
Batch_rest(i) == { p \in LoadIds : i <= p }

\* stemConfig.slice(i, i + batchSize)
Batch(i) == { p \in LoadIds : i <= p /\ p < i + batchSize }

\* mutant: a stem is registered under its position in the batch
StemIndex_inBatch(batchIndex) == batchIndex

\* `const index = i + batchIndex`, for the stem batch[batchIndex]
StemIndex(batchIndex) == batchAt + batchIndex

InitLoad ==
  /\ TransportInit([ p \in LoadIds |-> ConfigPool[(p % Len(ConfigPool)) + 1] ])
  /\ isMobile \in BOOLEAN
  /\ stemsLoaded = FALSE
  /\ stems = << >>
  /\ NoGraph
  /\ NoLoop
  /\ stemLoad = [ p \in LoadIds |-> "waiting" ]
  /\ loaded = [ players |-> {}, meters |-> {} ]
  /\ batchAt = 0
  /\ loadPhase = "idle"
  /\ mixerPanel = "none"

\* loader.loadStems(...): the first batch starts, every stem of it at once
CallLoadStems ==
  /\ loadPhase = "idle"
  /\ loadPhase' = "batch"
  /\ stemLoad' = [ p \in LoadIds |-> IF p \in Batch(0) THEN "fetching" ELSE stemLoad[p] ]
  /\ last' = NoCall
  /\ UNCHANGED << transport, isMobile, stemsLoaded, stems, graph, sched, loaded, batchAt,
                  mixerPanel >>

\* the download of a stem ends: the response and all its chunks arrived, or
\* fetch threw, the response was not ok or a read failed
FetchDone ==
  /\ loadPhase = "batch"
  /\ \E p \in Batch(batchAt), ok \in BOOLEAN :
       /\ stemLoad[p] = "fetching"
       /\ stemLoad' = [ stemLoad EXCEPT ![p] = IF ok THEN "readying" ELSE "failed" ]
  /\ last' = NoCall
  /\ UNCHANGED << transport, isMobile, stemsLoaded, stems, graph, sched, loaded, batchAt,
                  loadPhase, mixerPanel >>

\* the readiness promise of a stem settles by an event of the element:
\* canplaythrough, and the nodes, the meter and the player are created and
\* registered; or the error event, and the catch block logs the stem
MediaDone ==
  /\ loadPhase = "batch"
  /\ \E p \in Batch(batchAt), ok \in BOOLEAN :
       LET index == StemIndex(p - batchAt)
       IN /\ stemLoad[p] = "readying"
          /\ stemLoad' = [ stemLoad EXCEPT ![p] = IF ok THEN "loaded" ELSE "failed" ]
          /\ loaded' = IF ok THEN [ players |-> loaded.players \cup { index },
                                    meters |-> loaded.meters \cup { index } ]
                       ELSE loaded
  /\ last' = NoCall
  /\ UNCHANGED << transport, isMobile, stemsLoaded, stems, graph, sched, batchAt,
                  loadPhase, mixerPanel >>

\* the 45 s timer of the readiness promise fires first: reject('timeout'),
\* and the catch block logs the stem
ReadyTimeout ==
  /\ loadPhase = "batch"
  /\ \E p \in Batch(batchAt) :
       /\ stemLoad[p] = "readying"
       /\ stemLoad' = [ stemLoad EXCEPT ![p] = "timedOut" ]
  /\ last' = NoCall
  /\ UNCHANGED << transport, isMobile, stemsLoaded, stems, graph, sched, loaded, batchAt,
                  loadPhase, mixerPanel >>

\* canplaythrough of an element whose timer has fired: onReady clears the
\* timer and resolves a promise that is already rejected
LateReady ==
  /\ \E p \in LoadIds :
       /\ stemLoad[p] = "timedOut"
       /\ last' = Call("lateReady", p)
  /\ UNCHANGED << transport, outside >>

\* how the load of a stem can end
Finished == { "loaded", "failed", "timedOut" }

\* Promise.all of the batch resolves: the pause between batches begins
BatchSettled ==
  /\ loadPhase = "batch"
  /\ \A p \in Batch(batchAt) : stemLoad[p] \in Finished
  /\ loadPhase' = "pause"
  /\ last' = NoCall
  /\ UNCHANGED << transport, isMobile, stemsLoaded, stems, graph, sched, stemLoad, loaded,
                  batchAt, mixerPanel >>

\* the pause is over: the next batch starts, or loadStems returns and the
\* page hands the players to the transport and initMixer() shows the mixer
PauseElapsed ==
  /\ loadPhase = "pause"
  /\ batchAt' = batchAt + batchSize
  /\ IF batchAt + batchSize < MaxLoadStems
       THEN /\ loadPhase' = "batch"
            /\ stemLoad' = [ p \in LoadIds |-> IF p \in Batch(batchAt + batchSize)
                                                 THEN "fetching" ELSE stemLoad[p] ]
            /\ last' = NoCall
            /\ UNCHANGED << transport, stemsLoaded, mixerPanel >>
       ELSE /\ loadPhase' = "resolved"
            /\ SetPlayersBody(loaded.players, None)
            /\ stemsLoaded' = TRUE
            /\ mixerPanel' = "block"
            /\ UNCHANGED stemLoad
  /\ UNCHANGED << isMobile, stems, graph, sched, loaded >>

NextLoad ==
  \/ CallLoadStems
  \/ FetchDone
  \/ MediaDone
  \/ ReadyTimeout
  \/ LateReady
  \/ BatchSettled
  \/ PauseElapsed

SpecLoad == InitLoad /\ [][NextLoad]_vars

\* the same with what the page and the timers guarantee: initMixer calls
\* loadStems, a timer that is set fires, a settled Promise.all continues.
\* Nothing makes a download or an event of a media element arrive.
SpecLoadFair ==
  /\ SpecLoad
  /\ WF_vars(CallLoadStems)
  /\ WF_vars(ReadyTimeout)
  /\ WF_vars(BatchSettled)
  /\ WF_vars(PauseElapsed)

\* ------------------------------------------------------------------------
\* Properties of stem loading
\* ------------------------------------------------------------------------
LoadedStems == { p \in LoadIds : stemLoad[p] = "loaded" }

\* C24: loadStems resolves whatever stems fail; the players it returns are
\* exactly the stems that loaded, each under its configured index, and a
\* failed stem has neither a player nor a meter.
C24_LoadResult ==
  /\ loaded.players = LoadedStems
  /\ loaded.meters = LoadedStems
  /\ loadPhase = "resolved"
       => /\ \A p \in LoadIds : stemLoad[p] \in Finished
          /\ players = LoadedStems
          /\ stemsLoaded

\* on mobile, two of the first batch failed and the one of the second loaded
C24_Witness ==
  /\ loadPhase = "resolved" /\ isMobile
  /\ players = { 1, MaxLoadStems - 1 }
  /\ batchAt > MaxLoadStems - 1

\* C25 (as claimed): when every stem failed, the mixer console is not shown.
C25_AllFailedNoMixer ==
  (loadPhase = "resolved" /\ \A p \in LoadIds : stemLoad[p] = "failed")
    => mixerPanel = "none"

\* ------------------------------------------------------------------------
\* Properties of the state-change notifications
\* ------------------------------------------------------------------------
\* C26 (as claimed): 'playing' is delivered to the listener only by a step
\* that takes the transport from not playing to playing; a play() that ends
\* while the transport is playing (after a seek, a skip or a restart while
\* playing, or a second play() call) delivers nothing.
C26_PlayingOnce ==
  (last.op = "playResume" /\ lastNotify = "playing") => last.arg = 0

\* C29: after a sync check that ran while playing, the leader's rate is
\* nominal, the check has not moved the leader, and the leader is not in
\* the nudging set.
C29_LeaderNominal ==
  SyncRan =>
    /\ playbackRate[last.leader] = NOMINAL
    /\ currentTime[last.leader] = last.currentTime[last.leader]
    /\ last.leader \notin nudgingStems

\* a check that nudged one follower of a leader that is not the first stem
\* and has played for a while
C29_Witness ==
  /\ SyncRan
  /\ last.leader # MinOf(players)
  /\ currentTime[last.leader] > 0
  /\ \E p \in players \ {last.leader} : p \in nudgingStems \ last.nudgingStems

\* ------------------------------------------------------------------------
\* Specification of the animation loop (AnimationManager of mixer-loop.js
\* with the tasks of initAnimationLoop).  The frame clock counts thirds of a
\* millisecond, so that the intervals 1000 / fps are whole numbers: 300 for
\* 10 fps, 100 for 30 fps, 3000 for 1 fps; a display frame of 60 Hz is 50.
\* ------------------------------------------------------------------------
\* the clock values that are explored: up to MaxNow, and no further than
\* MaxRun after a whole second (runs of display frames between long gaps)
Explored(time) == time <= MaxNow /\ time % 3000 <= MaxRun

\* initAnimationLoop(): the fps of each task
TaskFps == [ progress |-> 10, meters |-> 30, holograph |-> 30, sync |-> 1 ]

\* add(): interval = 1000 / fps
Interval(task) == 3000 \div TaskFps[task]

\* mutant: no task has a condition
Condition_none(task) == TRUE

\* initAnimationLoop(): the condition of a task, true where it has none
Condition(task) == task \in { "holograph", "sync" } => isPlaying

\* mutant: a task runs in every frame in which its condition holds
Runs_everyFrame(task, time) == Condition(task)

\* _loop(now): the task passes the condition and the interval test
Runs(task, time) == Condition(task) /\ time - lastRun[task] >= Interval(task)

\* the page after initMixer(): the tasks are registered with lastRun 0 and
\* the two stems that loaded have been handed to the transport
InitLoop ==
  /\ names = TransportConfig
  /\ players = { 0, 1 }
  /\ currentTime = [ p \in StemIds |-> 0 ]
  /\ playbackRate = [ p \in StemIds |-> NOMINAL ]
  /\ paused = [ p \in StemIds |-> TRUE ]
  /\ isPlaying = FALSE
  /\ pauseTime = 0
  /\ duration = TrackDuration
  /\ cachedLeader = None
  /\ nudgingStems = {}
  /\ pending = << >>
  /\ lastNotify = "none"
  /\ leaderRead = None
  /\ last = NoCall
  /\ isMobile \in BOOLEAN
  /\ stemsLoaded = TRUE
  /\ stems = << >>
  /\ NoGraph
  /\ NoLoad
  /\ now = 0
  /\ lastRun = [ task \in { t \in DOMAIN TaskFps : t = "sync" => SyncTaskRegistered } |-> 0 ]
  /\ loopIsRunning = FALSE

\* _loop(now), dt after the frame before: every task that runs makes its
\* callback (updateProgress reads the time, the sync task calls syncCheck,
\* in the order of registration) and moves its lastRun.  The record keeps
\* the tasks that ran and those among them that had missed an interval.
Frame ==
  /\ loopIsRunning
  /\ \E dt \in { 50, 3000 } :
       LET time == now + dt
           ran == { task \in DOMAIN lastRun : Runs(task, time) }
       IN /\ Explored(time)
          /\ now' = time
          /\ lastRun' = [ task \in DOMAIN lastRun |->
                            IF task \in ran
                              THEN Max(time - Interval(task),
                                       lastRun[task] + Interval(task))
                              ELSE lastRun[task] ]
          /\ IF "sync" \in ran
               THEN syncCheckBody
               ELSE /\ cachedLeader' = IF "progress" \in ran /\ ReadByGetCurrentTime
                                         THEN Leader ELSE cachedLeader
                    /\ leaderRead' = IF "progress" \in ran /\ ReadByGetCurrentTime
                                       THEN Leader ELSE leaderRead
                    /\ UNCHANGED << currentTime, playbackRate, nudgingStems >>
          /\ last' = [ op |-> "frame", arg |-> dt, ran |-> ran,
                       late |-> { task \in ran :
                                    time - lastRun[task] >= 2 * Interval(task) },
                       isPlaying |-> isPlaying ]
  /\ UNCHANGED << isMobile, stemsLoaded, loader, stems, graph, loopIsRunning, names,
                  players, paused, isPlaying, pauseTime, duration, pending,
                  lastNotify >>

\* time that passes while no frame is requested
Elapse ==
  /\ ~loopIsRunning
  /\ \E dt \in { 50, 3000 } : Explored(now + dt) /\ now' = now + dt
  /\ last' = NoCall
  /\ UNCHANGED << transport, isMobile, stemsLoaded, loader, stems, graph, lastRun,
                  loopIsRunning >>

NextLoop ==
  \/ PlayButton
  \/ PlayResume
  \/ Stop
  \/ syncCheck
  \/ Frame
  \/ Elapse
  \/ Drift

SpecLoop == InitLoop /\ [][NextLoop]_vars

\* C27 (as claimed): a task that ran in a frame after it had missed an
\* interval does not run again in the next frame when that frame comes less
\* than one interval later.
C27_NoBurst ==
  [][ (last.op = "frame" /\ last'.op = "frame") =>
        \A task \in last.late : last'.arg < Interval(task) => task \notin last'.ran ]_vars

\* C28: a sync check made while the transport is not playing leaves every
\* position, every rate and the nudging set as they were, and a frame runs
\* the sync task only when the transport is playing.
C28_SyncOnlyPlaying ==
  /\ (SyncDone /\ ~last.isPlaying) =>
       /\ currentTime = last.currentTime
       /\ playbackRate = last.playbackRate
       /\ nudgingStems = last.nudgingStems
  /\ (last.op = "frame" /\ "sync" \in last.ran) => last.isPlaying

\* a sync check on a paused transport whose stems are 51 ms apart
C28_Witness ==
  /\ SyncDone /\ ~last.isPlaying
  /\ lastNotify = "paused"
  /\ \E p \in players, q \in players : currentTime[p] = currentTime[q] + 51

\* a frame on a paused transport in which the sync task was due and did not
\* run, while the progress task ran
C28_WitnessFrame ==
  /\ last.op = "frame" /\ ~last.isPlaying /\ loopIsRunning
  /\ "sync" \in DOMAIN lastRun
  /\ now - lastRun["sync"] >= Interval("sync")
  /\ "progress" \in last.ran /\ "sync" \notin last.ran

\* ------------------------------------------------------------------------
\* Properties of the filter stages
\* ------------------------------------------------------------------------
\* C31: in every state of a filter, whatever setType, setFrequency, setQ and
\* setRolloff calls were made, all of its stages have the same type, the
\* same target frequency and the same target Q.
C31_StagesAgree ==
  \A i \in 1 .. Len(filters), j \in 1 .. Len(filters) :
    /\ biquad[filters[i]].type = biquad[filters[j]].type
    /\ biquad[filters[i]].frequency.target = biquad[filters[j]].frequency.target
    /\ biquad[filters[i]].Q.target = biquad[filters[j]].Q.target

\* a two-stage highpass filter on its way to 1 kHz and Q 5
C31_Witness ==
  /\ Len(filters) = 2
  /\ \A i \in 1 .. 2 :
       /\ biquad[filters[i]].type = "highpass"
       /\ biquad[filters[i]].frequency.target = 1000000
       /\ biquad[filters[i]].frequency.value # 1000000
       /\ biquad[filters[i]].Q.target = 5000

\* ------------------------------------------------------------------------
\* Properties of a decoded mix
\* ------------------------------------------------------------------------
\* every numeric field of every stem of st is in its documented range, and
\* the rolloff is one of the two slopes
StoredInRange(st) ==
  \A i \in DOMAIN st :
    /\ \A f \in NumericFields :
         /\ st[i][f] # NaN
         /\ st[i][f] >= Range(f).lo
         /\ st[i][f] <= Range(f).hi
    /\ st[i].rolloff \in { -12, -24 }

\* C32 (as claimed): after applyFromUrl has decoded a mix string into a mix
\* state whose fields were in range, every stored numeric field of every stem
\* is in its documented range and the stored rolloff is -12 or -24.
C32_DecodedInRange ==
  (last.op = "applyFromUrl" /\ StoredInRange(last.before)) => StoredInRange(stems)

\* ------------------------------------------------------------------------
\* Properties of the batches and of the end of loading
\* ------------------------------------------------------------------------
InFlight == { p \in LoadIds : stemLoad[p] \in { "fetching", "readying" } }
BatchStart(p) == (p \div batchSize) * batchSize

C34_LoadResolves == <>(loadPhase = "resolved")

\* a stem failed by the timeout is not among the players and the meters, and
\* a readiness signal after the timeout leaves it so
TimedOutExcluded ==
  \A p \in LoadIds :
    stemLoad[p] = "timedOut" => p \notin loaded.players /\ p \notin loaded.meters

\* ------------------------------------------------------------------------
\* Properties of the animation loop
\* ------------------------------------------------------------------------
\* C35: only a frame of a running loop runs tasks or moves a recorded last
\* run.  A task runs in a frame only if its condition, when it has one,
\* holds (holograph and sync: the transport is playing) and at least one
\* interval of 1000 / fps ms has passed since its recorded last run; after
\* it has run at time now its recorded last run is between now minus one
\* interval and now; a task that did not run keeps its recorded last run.
C35_FrameTasks ==
  [][ /\ lastRun' # lastRun => (last'.op = "frame" /\ loopIsRunning)
      /\ last'.op = "frame" =>
           /\ loopIsRunning
           /\ last'.ran \subseteq DOMAIN lastRun
           /\ \A task \in DOMAIN lastRun :
                IF task \in last'.ran
                  THEN /\ task \in { "holograph", "sync" } => isPlaying
                       /\ now' - lastRun[task] >= 3000 \div TaskFps[task]
                       /\ lastRun'[task] >= now' - 3000 \div TaskFps[task]
                       /\ lastRun'[task] <= now'
                  ELSE lastRun'[task] = lastRun[task] ]_vars

\* a frame on a paused transport, one display frame after another: the meters
\* ran on their cadence, the progress task was not due and the holograph was
\* held back by its condition
C35_Witness ==
  /\ last.op = "frame" /\ last.arg = 50 /\ ~isPlaying /\ loopIsRunning
  /\ last.ran = { "meters" }
  /\ lastRun["meters"] = now
  /\ now - lastRun["holograph"] >= Interval("holograph")

\* ------------------------------------------------------------------------
\* Properties of a pending play()
\* ------------------------------------------------------------------------
\* C36 (as claimed): when a play() that was waiting for the audio clock
\* continues right after a stop() or a pause() that ran during its wait, the
\* transport does not become playing and no stem is started.
C36_StopIsDurable ==
  [][ (last.op \in { "stop", "pause" } /\ pending # << >> /\ last'.op = "playResume")
        => /\ ~isPlaying'
           /\ \A p \in players : paused'[p] ]_vars

\* ------------------------------------------------------------------------
\* Properties of the nudging set
\* ------------------------------------------------------------------------
\* C37: in every state of the transport, whatever play, pause, stop, seek,
\* restart and sync checks were made, a stem of the set runs at a rate other
\* than the nominal one if and only if it is in the nudging set.
C37_RateIffNudging ==
  \A p \in players : (playbackRate[p] # NOMINAL) <=> (p \in nudgingStems)

\* a sync check that ended the nudge of a stem: the stem left the set and
\* its rate went from a corrected one back to the nominal one
C37_Witness ==
  /\ SyncRan
  /\ \E p \in players :
       /\ p \in last.nudgingStems /\ last.playbackRate[p] # NOMINAL
       /\ p \notin nudgingStems /\ playbackRate[p] = NOMINAL

\* ------------------------------------------------------------------------
\* The console of the page: the initial mix, the faders, mute, solo, reset
\* ------------------------------------------------------------------------
\* the volumes a fader is dragged to
FaderValues == { 0, 500 }

\* INITIAL_MASTER_VOLUME / 100: no master parameter, and master=75
InitialMasters == { DEFAULT_MASTER_VOLUME, 750 }

\* the states of a stem that a shared mix string carries
SharedStates ==
  { DefaultStemState,
    [ DefaultStemState EXCEPT !.volume = 500, !.muted = TRUE ],
    [ DefaultStemState EXCEPT !.volume = 1000, !.solo = TRUE ] }

\* INITIAL_MIX_STATE: null (<< >>), or the mix parameter of a share link
InitialMixes ==
  { << >> } \cup { << toShareUrl(target) >> : target \in [ StemIds -> SharedStates ] }

\* updateMix(): hasSolo is computed once, then every player's gain is aimed
\* at its volume if the stem is active and at 0 otherwise
GainTargets(st) ==
  [ p \in DOMAIN gainTarget |->
      IF isStemActive(st, p, << hasSolo(st) >>) THEN st[p].volume ELSE 0 ]

\* initMixer() after `await loadStems()`: the master volume of the link is
\* in the mix state, every loaded stem has a gain node at its volume, and
\* the master gain is as _setupMasterChannel created it
InitConsole ==
  /\ TransportInit(TransportConfig)
  /\ isMobile = FALSE
  /\ stemsLoaded = TRUE
  /\ stems = [ i \in StemIds |-> DefaultStemState ]
  /\ filters = << >>
  /\ currentRolloff = 0
  /\ biquad = << >>
  /\ connections = {}
  /\ NoLoop
  /\ \E ok \in (SUBSET StemIds) \ { {} } :
       /\ stemLoad = [ p \in StemIds |-> IF p \in ok THEN "loaded" ELSE "failed" ]
       /\ loaded = [ players |-> ok, meters |-> ok ]
       /\ gainTarget = [ p \in ok |-> DefaultStemState.volume ]
  /\ batchAt = 0
  /\ loadPhase = "resolved"
  /\ mixerPanel = "none"
  /\ masterVolume \in InitialMasters
  /\ masterGain = DEFAULT_MASTER_VOLUME

\* initMixer() steps 7 to 10: applyFromUrl if there is a mix string,
\* buildUI(), updateMix(), and the mixer is shown
initMixer ==
  /\ mixerPanel = "none"
  /\ \E mix \in InitialMixes :
       /\ stems' = IF mix = << >> THEN stems ELSE ApplyFromUrl(stems, mix[1])
       /\ gainTarget' = GainTargets(stems')
       /\ last' = Call("initMixer", mix)
  /\ mixerPanel' = "block"
  /\ UNCHANGED << transport, isMobile, stemsLoaded, sched, stemLoad, loaded, batchAt,
                  loadPhase, filters, currentRolloff, biquad, connections,
                  masterVolume, masterGain >>

\* what the handlers of the console leave alone
besideConsole ==
  << transport, page, filters, currentRolloff, biquad, connections >>

\* handleFaderChange(index, value) of a channel strip
handleFaderChange ==
  /\ mixerPanel = "block"
  /\ \E index \in DOMAIN gainTarget, value \in FaderValues :
       /\ stems' = IF index \in DOMAIN stems
                     THEN [ stems EXCEPT ![index].volume = value ] ELSE stems
       /\ last' = Call("handleFaderChange", index)
  /\ gainTarget' = GainTargets(stems')
  /\ UNCHANGED << besideConsole, masterVolume, masterGain >>

\* handleMute(index)
handleMute ==
  /\ mixerPanel = "block"
  /\ \E index \in DOMAIN gainTarget :
       /\ stems' = IF index \in DOMAIN stems
                     THEN [ stems EXCEPT ![index].muted = ~stems[index].muted ]
                     ELSE stems
       /\ last' = Call("handleMute", index)
  /\ gainTarget' = GainTargets(stems')
  /\ UNCHANGED << besideConsole, masterVolume, masterGain >>

\* handleSolo(index)
handleSolo ==
  /\ mixerPanel = "block"
  /\ \E index \in DOMAIN gainTarget :
       /\ stems' = IF index \in DOMAIN stems
                     THEN [ stems EXCEPT ![index].solo = ~stems[index].solo ]
                     ELSE stems
       /\ last' = Call("handleSolo", index)
  /\ gainTarget' = GainTargets(stems')
  /\ UNCHANGED << besideConsole, masterVolume, masterGain >>

\* handleMasterFaderChange(value)
handleMasterFaderChange ==
  /\ mixerPanel = "block"
  /\ \E value \in FaderValues :
       /\ masterVolume' = value
       /\ masterGain' = value
       /\ last' = Call("handleMasterFaderChange", value)
  /\ UNCHANGED << besideConsole, stems, gainTarget >>

\* resetMix(): mixerState.reset(), resetNode for every player (the effect
\* nodes, not the gain node), setMasterVolume, buildUI; there is no updateMix
resetMix ==
  /\ mixerPanel = "block"
  /\ stems' = [ i \in DOMAIN stems |-> DefaultStemState ]
  /\ masterVolume' = DEFAULT_MASTER_VOLUME
  /\ masterGain' = masterVolume'
  /\ last' = Call("resetMix", None)
  /\ UNCHANGED << besideConsole, gainTarget >>

NextConsole ==
  \/ initMixer
  \/ handleFaderChange
  \/ handleMute
  \/ handleSolo
  \/ handleMasterFaderChange
  \/ resetMix

SpecConsole == InitConsole /\ [][NextConsole]_vars

\* the operations of the console that C38 names
MixOperations ==
  { "initMixer", "handleFaderChange", "handleMute", "handleSolo", "resetMix" }

\* C38 (as claimed): after a fader move, a mute toggle, a solo toggle, a
\* reset of the mix or the initial application of a shared mix string, the
\* gain target of every loaded stem is its mix-state volume if the stem is
\* audible under mute/solo arbitration, and 0 otherwise.  resetMix() puts the
\* mix state back to its defaults and leaves the gain targets where they were.
C38_GainsFollowMix ==
  last.op \in MixOperations
    => \A p \in DOMAIN gainTarget :
         gainTarget[p] = IF isStemActive(stems, p, << >>) THEN stems[p].volume ELSE 0

\* C39 (as claimed): once the page is initialised, and after every
\* master-fader change and every reset, the target of the master gain is the
\* master volume of the mix state; a master volume that came with a share
\* link is applied to the output.  initMixer() stores that volume and never
\* hands it to the master gain.
C39_MasterApplied ==
  mixerPanel = "block" => masterGain = masterVolume

\* C40: whenever the transport is playing the animation loop is running,
\* after any interleaving of play, pause, stop, seek, skip and restart, and
\* the loop goes from running to stopped only in a stop of the transport.
C40_LoopWhilePlaying ==
  /\ [](isPlaying => loopIsRunning)
  /\ [][(loopIsRunning /\ ~loopIsRunning') => last'.op = "stop"]_vars

\* the transport plays with the loop running once the play() that ends a
\* seek made while playing has completed
C40_Witness ==
  /\ isPlaying
  /\ loopIsRunning
  /\ last.op = "playResume"
  /\ last.seek


====
